---- MODULE Spec2Model ----
(***************************************************************************)
(* State-machine model of the DASH data viewer session (src/main.py).      *)
(*                                                                         *)
(* The session object (class DASH) is the state; every Qt slot is one      *)
(* action.  load_and_plot is split at its QApplication.processEvents()     *)
(* calls, because pending user events are dispatched there: the slots can  *)
(* run between _read_and_prepare and _plot_all.                            *)
(*                                                                         *)
(* Conventions                                                             *)
(*  - a float cell is a record [k, v]: k = "num" (finite, value v),        *)
(*    "nan", "inf" (+infinity); a file cell may also be "str" (text that   *)
(*    is not a number) or "ts" (text that parses as the instant v);        *)
(*  - a normalised value is an exact fraction [k, n, d] (n/d), or NaN;     *)
(*  - Python's None is the empty tuple, a present value x is <<x>>;        *)
(*  - a dict is a function whose DOMAIN is the key set;                    *)
(*  - x_sec holds the same instants as x_ns (x_ns / 1e9): the scaling is   *)
(*    kept as a change of unit, the numbers are the ns numbers.            *)
(***************************************************************************)
EXTENDS Integers, Sequences, FiniteSets, TLC

VARIABLES
    HAS_POLARS,        \* which reader the build uses (main.py:29-33)
    files,             \* the file system: path -> parsed table
    time_col, x_ns, x_sec, series_cols, Y_raw, Y_norm,      \* the Dataset
    curves, list_series, pen_active_cache,                  \* plot items
    ds_for, ds_default, active_for, current_mode,           \* series state
    thresholds, find_rules, event_items, list_events,       \* overlays
    highlight_regions, compare_data, curves_ref,
    cmb_items, cmb_visible,                                 \* time selector
    highlight_mode, highlight_first_ns,                     \* highlight gesture
    bookmarks, list_bm,                                     \* bookmarks, their list
    compare_mode,                                           \* the Compare button
    vline,             \* where the cursor line stands, in seconds
    viewRange,         \* the ranges the ViewBox shows: [x0, x1, y0, y1]
    jump_enabled,      \* whether dt_start, dt_end and the Go button are enabled
    blind_fits,        \* fits in a row that found no data to fit on some axis
    exported,          \* the table the last CSV export wrote
    alert,             \* the modal message box that is open: <<title, text>>
    fault,             \* the exception that escaped a slot, "" if none
    loadStack          \* the load_and_plot calls in progress, innermost last

dataset == <<time_col, x_ns, x_sec, series_cols, Y_raw, Y_norm>>
plotItems == <<curves, list_series, pen_active_cache>>
seriesState == <<ds_for, ds_default, active_for, current_mode>>
overlays == <<thresholds, find_rules, event_items, list_events,
              highlight_regions, compare_data, curves_ref>>
selector == <<cmb_items, cmb_visible>>
marks == <<highlight_mode, highlight_first_ns, bookmarks, list_bm, compare_mode,
           vline>>
viewport == <<viewRange, jump_enabled, blind_fits>>
vars == <<HAS_POLARS, files, dataset, plotItems, seriesState, overlays,
          selector, marks, viewport, exported, alert, fault, loadStack>>

----------------------------------------------------------------------------
(* Bounds of the model *)

MaxRows == 2        \* rows of a generated input table
MaxNest == 1        \* load_and_plot calls that may be in progress at once
MaxBlindFits == 1   \* fits in a row that find nothing to fit on some axis

----------------------------------------------------------------------------
(* Generic helpers *)

None == << >>
Some(a) == <<a>>

EmptyDict == [c \in {} |-> TRUE]
Put(d, key, val) == [c \in DOMAIN d \cup {key} |-> IF c = key THEN val ELSE d[c]]
Get(d, key, default) == IF key \in DOMAIN d THEN d[key] ELSE default

Range(s) == {s[i] : i \in DOMAIN s}
Abs(n) == IF n < 0 THEN -n ELSE n
MinOf(S) == CHOOSE a \in S : \A b \in S : a <= b
MaxOf(S) == CHOOSE a \in S : \A b \in S : a >= b

RECURSIVE SumSeq(_)
SumSeq(s) == IF s = << >> THEN 0 ELSE Head(s) + SumSeq(Tail(s))

\* s[mask]: numpy boolean-mask indexing, order kept
RECURSIVE Masked(_, _)
Masked(s, mask) ==
    IF s = << >> THEN << >>
    ELSE (IF Head(mask) THEN <<Head(s)>> ELSE << >>) \o Masked(Tail(s), Tail(mask))

----------------------------------------------------------------------------
(* Cells *)

Num(n) == [k |-> "num", v |-> n]
NaN == [k |-> "nan", v |-> 0]
Inf == [k |-> "inf", v |-> 0]
Str == [k |-> "str", v |-> 0]
Ts(n) == [k |-> "ts", v |-> n]

Frac(n, d) == [k |-> "num", n |-> n, d |-> d]
NormNaN == [k |-> "nan", n |-> 0, d |-> 1]

\* np.isfinite
isfinite(c) == c.k = "num"

----------------------------------------------------------------------------
(* Ingestion: DASH._read_and_prepare, as a function of the file's table *)

TIME_COL == "Date UTC"
TIME_COL_CANDIDATES ==
    <<"Date UTC", "UTC", "Timestamp", "DateTime", "Datetime", "Date_Time",
      "Date", "Time", "time", "date", "datetime">>

MSG_NO_NUMERIC == "No numeric series to plot."
MSG_ZERO_SIZE == "zero-size array to reduction operation fmin which has no identity"
MSG_READ == "No columns to parse from file"
MSG_STRPTIME == "invalid series dtype: expected String, got i64"

\* The first column of the header that is a candidate, in header order
DetectTimeColInHeaderOrder(header) ==
    LET hits == {i \in DOMAIN header : header[i] \in Range(TIME_COL_CANDIDATES)}
    IN IF hits = {} THEN header[1] ELSE header[MinOf(hits)]

\* tcol = next((c for c in TIME_COL_CANDIDATES if c in df.columns), df.columns[0])
DetectTimeCol(header) ==
    LET hits == {i \in DOMAIN TIME_COL_CANDIDATES :
                    TIME_COL_CANDIDATES[i] \in Range(header)}
    IN IF hits = {} THEN header[1] ELSE TIME_COL_CANDIDATES[MinOf(hits)]

ColCells(tbl, c) == {tbl.rows[i][c] : i \in DOMAIN tbl.rows}

\* The dtype the reader infers for a column from the whole file: numeric when
\* every cell is a number or blank.  pandas reads an all-blank column as
\* float64 and a column of a file without rows as object; polars reads an
\* all-null column as String.
is_numeric_dtype(tbl, c, polars) ==
    /\ \A cell \in ColCells(tbl, c) : cell.k \in {"num", "nan", "inf"}
    /\ IF polars THEN \E cell \in ColCells(tbl, c) : cell.k \in {"num", "inf"}
                 ELSE tbl.rows # << >>

\* The parsed instant of a cell of the time column (None: null / NaT).  A
\* text cell either parses as a timestamp or is coerced to null (strict=False
\* / errors="coerce"); pd.to_datetime reads a number as nanoseconds since the
\* epoch.
ParseTime(cell) == IF cell.k \in {"ts", "num"} THEN Some(cell.v) ELSE None

\* df.with_columns(_ts_).drop_nulls / df.assign(_ts_=ts).dropna: the rows with
\* a parsed time, each with its instant, in file order
RECURSIVE DropNullTs(_, _)
DropNullTs(tcol, rows) ==
    IF rows = << >> THEN << >>
    ELSE LET t == ParseTime(Head(rows)[tcol])
         IN (IF t = None THEN << >> ELSE <<[ts |-> t[1], row |-> Head(rows)]>>)
            \o DropNullTs(tcol, Tail(rows))

\* The orders .sort("_ts_") / .sort_values("_ts_") may return: neither sort is
\* stable, so rows of equal time come in any order.
SortOrders(df) ==
    {p \in [DOMAIN df -> DOMAIN df] :
        /\ \A i, j \in DOMAIN df : i # j => p[i] # p[j]
        /\ \A i, j \in DOMAIN df : i < j => df[p[i]].ts <= df[p[j]].ts}

\* A frame left in file order, as if the sort were skipped
PermutedNot(df, p) == df

Permuted(df, p) == [i \in DOMAIN df |-> df[p[i]]]

\* df[(df["_ts_"] >= sdt) & (df["_ts_"] <= edt)]; rng is None or <<sdt, edt>>
RECURSIVE FilterRange(_, _)
FilterRange(df, rng) ==
    IF rng = None THEN df
    ELSE IF df = << >> THEN << >>
    ELSE (IF Head(df).ts >= rng[1] /\ Head(df).ts <= rng[2] THEN <<Head(df)>> ELSE << >>)
         \o FilterRange(Tail(df), rng)

\* num_cols, in column order
RECURSIVE NumCols(_, _, _, _)
NumCols(tbl, header, tcol, polars) ==
    IF header = << >> THEN << >>
    ELSE (IF Head(header) \notin {tcol, "_ts_"} /\ is_numeric_dtype(tbl, Head(header), polars)
          THEN <<Head(header)>> ELSE << >>)
         \o NumCols(tbl, Tail(header), tcol, polars)

\* np.nanmin / np.nanmax of a non-empty array: NaN when every element is NaN,
\* +inf counts as a value
nanmin(y) ==
    LET fin == {y[i].v : i \in {j \in DOMAIN y : y[j].k = "num"}}
    IN IF fin # {} THEN Num(MinOf(fin))
       ELSE IF \E i \in DOMAIN y : y[i].k = "inf" THEN Inf ELSE NaN

nanmax(y) ==
    LET fin == {y[i].v : i \in {j \in DOMAIN y : y[j].k = "num"}}
    IN IF \E i \in DOMAIN y : y[i].k = "inf" THEN Inf
       ELSE IF fin # {} THEN Num(MaxOf(fin)) ELSE NaN

\* (y - ymin) / (ymax - ymin) if both are finite and ymax > ymin,
\* else np.zeros_like(y)
Normalize(y) ==
    LET ymin == nanmin(y)
        ymax == nanmax(y)
    IN IF isfinite(ymin) /\ isfinite(ymax) /\ ymax.v > ymin.v
       THEN [i \in DOMAIN y |->
                IF y[i].k = "num" THEN Frac(y[i].v - ymin.v, ymax.v - ymin.v)
                ELSE NormNaN]
       ELSE [i \in DOMAIN y |-> Frac(0, 1)]

\* A row mask that wants every series finite (all instead of any)
ValidRowAll(Yr, num_cols, n) ==
    [i \in 1..n |-> \A j \in DOMAIN num_cols : Yr[num_cols[j]][i].k = "num"]

\* valid_row = np.vstack([np.isfinite(Y_raw[c]) for c in num_cols]).any(axis=0)
ValidRow(Yr, num_cols, n) ==
    [i \in 1..n |-> \E j \in DOMAIN num_cols : isfinite(Yr[num_cols[j]][i])]

Raise(stage, msg, tcol) ==
    [ok |-> FALSE, stage |-> stage, err |-> msg, tcol |-> tcol,
     num_cols |-> << >>, x_ns |-> << >>, x_sec |-> << >>,
     Y_raw |-> EmptyDict, Y_norm |-> EmptyDict]

\* The sorted, range-filtered frame of a readable table
Frame(tbl, rng, order) ==
    FilterRange(Permuted(DropNullTs(DetectTimeCol(tbl.header), tbl.rows), order), rng)

\* Lines 468-522: what _read_and_prepare computes, or the exception it raises.
\* stage "read": raised before self.time_col is assigned; "prepared": after.
\* The polars branch applies .str.strptime to the time column (474-476),
\* which raises on a column that was read as numbers.
ReadAndPrepare(tbl, rng, order, polars) ==
    IF ~tbl.readable THEN Raise("read", MSG_READ, "")
    ELSE IF polars /\ is_numeric_dtype(tbl, DetectTimeCol(tbl.header), TRUE)
    THEN Raise("prepared", MSG_STRPTIME, DetectTimeCol(tbl.header))
    ELSE
    LET tcol == DetectTimeCol(tbl.header)
        df == Frame(tbl, rng, order)
        num_cols == NumCols(tbl, tbl.header, tcol, polars)
        n == Len(df)
        xns == [i \in 1..n |-> df[i].ts]
        Yr == [c \in Range(num_cols) |-> [i \in 1..n |-> df[i].row[c]]]
        Yn == [c \in Range(num_cols) |-> Normalize(Yr[c])]
        valid_row == ValidRow(Yr, num_cols, n)
    IN IF num_cols = << >> THEN Raise("prepared", MSG_NO_NUMERIC, tcol)
       ELSE IF n = 0 THEN Raise("prepared", MSG_ZERO_SIZE, tcol)
       ELSE [ok |-> TRUE, stage |-> "done", err |-> "", tcol |-> tcol,
             num_cols |-> num_cols,
             x_ns |-> Masked(xns, valid_row),
             x_sec |-> Masked(xns, valid_row),
             Y_raw |-> [c \in Range(num_cols) |-> Masked(Yr[c], valid_row)],
             Y_norm |-> [c \in Range(num_cols) |-> Masked(Yn[c], valid_row)]]

\* The orders the sort of this table's frame may produce
FrameOrders(tbl) ==
    IF ~tbl.readable THEN {<< >>}
    ELSE SortOrders(DropNullTs(DetectTimeCol(tbl.header), tbl.rows))

\* _maybe_show_time_selector: the candidates found in the header line
RECURSIVE HeaderCandidates(_)
HeaderCandidates(header) ==
    IF header = << >> THEN << >>
    ELSE (IF Head(header) \in Range(TIME_COL_CANDIDATES) THEN <<Head(header)>> ELSE << >>)
         \o HeaderCandidates(Tail(header))

----------------------------------------------------------------------------
(* Default ordering and activation: DASH._plot_all *)

INIT_SHOW_N == 6      \* init_show_n = min(6, len(ordered))
MIN_HUES == 8         \* hues = max(8, len(ordered))
W_STD == 7            \* 0.7 * np.nanstd(fin), in tenths
W_MAX == 3            \* 0.3 * np.nanmax(np.abs(fin)), in tenths

RECURSIVE FinVals(_)
FinVals(y) ==
    IF y = << >> THEN << >>
    ELSE (IF isfinite(Head(y)) THEN <<Head(y).v>> ELSE << >>) \o FinVals(Tail(y))

\* The score of a series, kept exactly: with fin its n finite values,
\*   np.nanstd(fin) = sqrt(q) / n,  q = n * sum(fin^2) - sum(fin)^2
\*   np.nanmax(np.abs(fin)) = m
\* and the score is -inf when n = 0.
Score(y) ==
    LET fin == FinVals(y)
        n == Len(fin)
        s1 == SumSeq(fin)
        s2 == SumSeq([i \in DOMAIN fin |-> fin[i] * fin[i]])
    IN [n |-> n, q |-> n * s2 - s1 * s1,
        m |-> IF n = 0 THEN 0 ELSE MaxOf({Abs(fin[i]) : i \in DOMAIN fin})]

\* W_STD * sqrt(a) - W_STD * sqrt(b) > c, for naturals a, b and an integer c
SqrtDiffGT(a, b, c) ==
    IF c >= 0
    THEN LET d == W_STD * W_STD * a - c * c - W_STD * W_STD * b
         IN d > 0 /\ d * d > 4 * W_STD * W_STD * c * c * b
    ELSE LET e == W_STD * W_STD * b - W_STD * W_STD * a - c * c
         IN e < 0 \/ 4 * W_STD * W_STD * c * c * a > e * e

\* score(a) > score(b):
\*   W_STD*sqrt(qa)/na + W_MAX*ma > W_STD*sqrt(qb)/nb + W_MAX*mb
ScoreGT(a, b) ==
    IF a.n = 0 THEN FALSE
    ELSE IF b.n = 0 THEN TRUE
    ELSE SqrtDiffGT(b.n * b.n * a.q, a.n * a.n * b.q, W_MAX * a.n * b.n * (b.m - a.m))

\* One step of a descending sort that puts col before its equals
InsertDescFirst(sorted, col, sc) ==
    LET before == {i \in DOMAIN sorted : ~ScoreGT(sc[sorted[i]], sc[col])}
        at == IF before = {} THEN Len(sorted) + 1 ELSE MinOf(before)
    IN SubSeq(sorted, 1, at - 1) \o <<col>> \o SubSeq(sorted, at, Len(sorted))

\* One step of a stable descending sort: col goes after every element whose
\* score is not smaller than its own
InsertDesc(sorted, col, sc) ==
    LET before == {i \in DOMAIN sorted : ScoreGT(sc[col], sc[sorted[i]])}
        at == IF before = {} THEN Len(sorted) + 1 ELSE MinOf(before)
    IN SubSeq(sorted, 1, at - 1) \o <<col>> \o SubSeq(sorted, at, Len(sorted))

\* sorted(cols, key=lambda c: scores[c], reverse=True): stable
RECURSIVE SortedDesc(_, _, _)
SortedDesc(cols, k, sc) ==
    IF k = 0 THEN << >> ELSE InsertDesc(SortedDesc(cols, k - 1, sc), cols[k], sc)

Scores(cols, Yr) == [c \in Range(cols) |-> Score(Yr[c])]
Ordered(cols, Yr) == SortedDesc(cols, Len(cols), Scores(cols, Yr))

IndexOf(s, e) == CHOOSE i \in DOMAIN s : s[i] = e

\* pg.mkPen(pg.intColor(i, hues=max(8, len(ordered))), width=2.2)
AutoPen(i, n) == [kind |-> "auto", i |-> i, hues |-> IF n > MIN_HUES THEN n ELSE MIN_HUES]

----------------------------------------------------------------------------
(* The view: the ranges the ViewBox shows.  A view coordinate is an integer
   count of 1/VIEW_UNIT of a second along X and of a data unit along Y.  In
   log mode (PlotItem.setLogMode, line 553) the Y coordinate of a sample is
   the decimal logarithm of its value. *)

VIEW_UNIT == 10000
\* 1e-12 (line 606): it lies above the coordinate 0 and below every other
\* coordinate the model can tell apart from 0
LOG_FLOOR == 1
\* padding=0.02 (lines 556, 924, 938, 974) and 0.02 * span (lines 603-604)
PAD_DIV == 50

Rect(x0, x1, y0, y1) == [x0 |-> x0, x1 |-> x1, y0 |-> y0, y1 |-> y1]
\* The ranges of a ViewBox nothing has been fitted into: [0, 1] on both axes
InitialView == Rect(0, VIEW_UNIT, 0, VIEW_UNIT)

Pad(span) == span \div PAD_DIV

\* ViewBox.setRange of one axis with padding=0.02.  A request of no extent
\* is given one unit of extent (minXRange=1.0 of line 418, and the library's
\* scale of choice along Y)
SetAxis(lo, hi) ==
    IF hi > lo THEN <<lo - Pad(hi - lo), hi + Pad(hi - lo)>>
    ELSE <<lo - (VIEW_UNIT \div 2) - Pad(VIEW_UNIT),
           lo + (VIEW_UNIT \div 2) + Pad(VIEW_UNIT)>>

RECURSIVE IntLog10(_)
IntLog10(v) == IF v < 10 THEN 0 ELSE 1 + IntLog10(v \div 10)
\* log10 of a positive sample, in view coordinates, to the nearest one
Log10U(v) ==
    CASE v = 1 -> 0
      [] v = 2 -> 3010
      [] v = 3 -> 4771
      [] v = 5 -> 6990
      [] v = 7 -> 8451
      [] v = 157 -> 21959
      [] OTHER -> VIEW_UNIT * IntLog10(v)

\* The view coordinate of a sample drawn by a curve, None if it is not drawn
YCoord(c, log) ==
    IF c.k # "num" THEN None
    ELSE IF "d" \in DOMAIN c THEN Some((c.n * VIEW_UNIT) \div c.d)
    ELSE IF log THEN (IF c.v > 0 THEN Some(Log10U(c.v)) ELSE None)
    ELSE Some(c.v * VIEW_UNIT)

\* _update_curves_for_mode (563-571): what a curve is given to draw
DisplayData(y, ynorm, mode) ==
    IF mode = "normalize" THEN ynorm
    ELSE IF mode = "log"
    THEN [i \in DOMAIN y |->
            IF isfinite(y[i]) /\ Abs(y[i].v) > 0 THEN Num(Abs(y[i].v)) ELSE NaN]
    ELSE [i \in DOMAIN y |-> IF isfinite(y[i]) THEN y[i] ELSE NaN]

\* What the shown curves span: the times of their points, the coordinates
\* of their finite samples; None on an axis where they span nothing
XsOf(cvs) == UNION {{cvs[c].x[i] * VIEW_UNIT : i \in DOMAIN cvs[c].x} :
                        c \in {d \in DOMAIN cvs : cvs[d].shown}}
YsOf(cvs, log) ==
    UNION {{YCoord(cvs[c].y[i], log)[1] :
                i \in {j \in DOMAIN cvs[c].y : YCoord(cvs[c].y[j], log) # None}} :
            c \in {d \in DOMAIN cvs : cvs[d].shown}}
Span(S) == IF S = {} THEN None ELSE Some(<<MinOf(S), MaxOf(S)>>)

\* pi.autoRange() (line 599): the ranges are set to what the shown curves
\* span, padded by the library; an axis on which they span nothing keeps
\* its range
AutoRange(view, cvs, log) ==
    LET bx == Span(XsOf(cvs))
        by == Span(YsOf(cvs, log))
        xr == IF bx = None THEN <<view.x0, view.x1>> ELSE SetAxis(bx[1][1], bx[1][2])
        yr == IF by = None THEN <<view.y0, view.y1>> ELSE SetAxis(by[1][1], by[1][2])
    IN Rect(xr[1], xr[2], yr[1], yr[2])

\* Whether a fit would find nothing to fit on some axis
Blind(cvs, log) == XsOf(cvs) = {} \/ YsOf(cvs, log) = {}

ViewMax(a, b) == IF a >= b THEN a ELSE b

\* Lines 601-609 of _fit_view: the ranges autoRange left, padded again
Padded(ar, mode) ==
    LET pad_x == IF ar.x1 > ar.x0 THEN Pad(ar.x1 - ar.x0) ELSE 0
        pad_y == IF ar.y1 > ar.y0 THEN Pad(ar.y1 - ar.y0) ELSE 0
        y0 == IF mode = "log" THEN ViewMax(ar.y0 - pad_y, LOG_FLOOR)
              ELSE ar.y0 - pad_y
    IN Rect(ar.x0 - pad_x, ar.x1 + pad_x, y0, ar.y1 + pad_y)

\* Whether _fit_view goes past its first line (596)
FitRuns(xs) == xs # None /\ Len(xs[1]) > 0

\* _fit_view (595-611): the view it leaves
FitView(view, xs, cvs, mode) ==
    IF FitRuns(xs) THEN Padded(AutoRange(view, cvs, mode = "log"), mode) ELSE view

\* The number of fits in a row that found nothing to fit, after one more
BlindAfter(n, xs, cvs, mode) ==
    IF ~FitRuns(xs) THEN n ELSE IF Blind(cvs, mode = "log") THEN n + 1 ELSE 0

----------------------------------------------------------------------------
(* _plot_all and the styles of the curves *)

\* _apply_active_styles_to_curves_and_list, on the curves
ApplyActiveStyles(cvs, act, pens) ==
    [c \in DOMAIN cvs |->
        IF Get(act, c, TRUE)
        THEN [cvs[c] EXCEPT !.shown = TRUE, !.pen = pens[c]]
        ELSE [cvs[c] EXCEPT !.shown = FALSE]]

\* What _plot_all computes (lines 625-649) from the Dataset and the series
\* state it finds: the pens, the active flags, the curves and the list
PlotState(cols, Yr, dsf, dsd, act, pens, xs) ==
    LET ordered == Ordered(cols, Yr)
        n == Len(ordered)
        init_show_n == IF n < INIT_SHOW_N THEN n ELSE INIT_SHOW_N
        rank == [c \in Range(ordered) |-> IndexOf(ordered, c) - 1]
        newPens == [c \in DOMAIN pens \cup Range(ordered) |->
                      IF c \in Range(ordered) THEN AutoPen(rank[c], n) ELSE pens[c]]
        newAct == [c \in DOMAIN act \cup Range(ordered) |->
                      IF c \in Range(ordered) THEN rank[c] < init_show_n ELSE act[c]]
        plotted == [c \in Range(ordered) |->
                      [ds |-> Get(dsf, c, dsd), pen |-> newPens[c], shown |-> TRUE,
                       x |-> xs, y |-> Yr[c]]]
    IN [ordered |-> ordered, pens |-> newPens, active |-> newAct,
        curves |-> ApplyActiveStyles(plotted, newAct, newPens)]

\* rb_linear.setChecked(True) (line 620) toggles two radio buttons when
\* another scale was chosen, and each toggle runs on_scale_changed (line
\* 252) on the plot that line 615 has just cleared: two fits that find
\* nothing to fit
ViewAfterReset(view, mode, xs) ==
    IF mode # "linear" /\ FitRuns(xs)
    THEN Padded(Padded(view, "linear"), "linear") ELSE view

\* _enable_jump_controls (917-924), on the view
ViewAfterJumpControls(view, xns) ==
    LET xr == SetAxis(MinOf(Range(xns)) * VIEW_UNIT, MaxOf(Range(xns)) * VIEW_UNIT)
    IN [view EXCEPT !.x0 = xr[1], !.x1 = xr[2]]

\* The state _plot_all leaves (lines 614-664)
PlotAll ==
    /\ list_events' = << >>
    /\ current_mode' = "linear"
    /\ IF series_cols = << >>
       THEN /\ curves' = EmptyDict
            /\ list_series' = << >>
            /\ viewRange' = ViewAfterReset(viewRange, current_mode, x_sec)
            /\ UNCHANGED <<pen_active_cache, active_for, jump_enabled, blind_fits>>
       ELSE LET st == PlotState(series_cols, Y_raw, ds_for, ds_default,
                                active_for, pen_active_cache, x_sec[1])
                v0 == ViewAfterReset(viewRange, current_mode, x_sec)
                fits == Len(x_sec[1]) > 1
                v1 == IF fits THEN FitView(v0, x_sec, st.curves, "linear") ELSE v0
            IN /\ curves' = st.curves
               /\ list_series' = st.ordered
               /\ pen_active_cache' = st.pens
               /\ active_for' = st.active
               /\ fits /\ Blind(st.curves, FALSE) => blind_fits < MaxBlindFits
               /\ blind_fits' = IF fits THEN BlindAfter(blind_fits, x_sec, st.curves, "linear")
                                 ELSE blind_fits
               /\ IF Len(x_ns[1]) > 0
                  THEN /\ viewRange' = ViewAfterJumpControls(v1, x_ns[1])
                       /\ jump_enabled' = TRUE
                  ELSE /\ viewRange' = v1
                       /\ UNCHANGED jump_enabled

----------------------------------------------------------------------------
(* Input files *)

NoFile == [exists |-> FALSE, readable |-> FALSE, header |-> << >>, rows |-> << >>]
Table(header, rows) == [exists |-> TRUE, readable |-> TRUE, header |-> header, rows |-> rows]
\* A file read_csv cannot parse (an empty file)
Garbled == [exists |-> TRUE, readable |-> FALSE, header |-> << >>, rows |-> << >>]

Row3(h, t, a, b) == (h[1] :> t) @@ (h[2] :> a) @@ (h[3] :> b)

\* The files of the interactive session
HeaderAB == <<"Date UTC", "A", "B">>
HeaderB == <<"Timestamp", "B">>
HeaderText == <<"Time", "Name">>
SessionFiles ==
    ("ab.csv" :> Table(HeaderAB, <<Row3(HeaderAB, Ts(2), Num(1), NaN),
                                   Row3(HeaderAB, Ts(1), Num(3), Num(2))>>))
    @@ ("b.csv" :> Table(HeaderB, <<("Timestamp" :> Ts(1)) @@ ("B" :> Num(2))>>))
    @@ ("names.csv" :> Table(HeaderText, <<("Time" :> Ts(1)) @@ ("Name" :> Str)>>))
    @@ ("gone.csv" :> NoFile)

\* Generated tables: a time column and two value columns, each value column
\* numeric or text
GenTimes == {Ts(1), Ts(2)}
GenCellsA == {NaN, Num(1)}
GenCellsB == {Inf, Num(2)}
\* A row whose time does not parse, its values finite where the column is numeric
NoTimeRow(ta, tb) ==
    Row3(HeaderAB, Str, IF ta THEN Str ELSE Num(1), IF tb THEN Str ELSE Num(2))
GenRows(ta, tb) ==
    {Row3(HeaderAB, t, a, b) :
        t \in GenTimes,
        a \in (IF ta THEN {Str} ELSE GenCellsA),
        b \in (IF tb THEN {Str} ELSE GenCellsB)}
    \cup {NoTimeRow(ta, tb)}
SeqsUpTo(S, n) == UNION {[1..k -> S] : k \in 0..n}
\* Rows of a file whose time column holds numbers (epoch nanoseconds)
EpochRows ==
    {Row3(HeaderAB, Num(t), ab[1], ab[2]) :
        t \in {1, 2}, ab \in {<<Str, Str>>, <<Num(1), Inf>>}}
GenTables ==
    {Table(HeaderAB, rows) :
        rows \in SeqsUpTo(GenRows(FALSE, FALSE), MaxRows)
                 \cup SeqsUpTo(GenRows(FALSE, TRUE), MaxRows)
                 \cup SeqsUpTo(GenRows(TRUE, TRUE), MaxRows)
                 \cup SeqsUpTo(EpochRows, MaxRows)}

\* Wide tables: seven value columns over three rows, for the default ordering
WideHeader == <<"Date UTC", "S1", "S2", "S3", "S4", "S5", "S6", "S7">>
WideCols == {"S1", "S2", "S3", "S4", "S5", "S6", "S7"}
WideColumns == {<<NaN, NaN, NaN>>, <<Num(1), Num(2), Num(3)>>, <<Num(2), Num(2), NaN>>}
WideTables ==
    {Table(WideHeader,
           [i \in 1..3 |-> [c \in Range(WideHeader) |->
                               IF c = "Date UTC" THEN Ts(i) ELSE col[c][i]]]) :
        col \in [WideCols -> WideColumns]}

\* One-series tables of three rows, for the normalisation
HeaderA == <<"Date UTC", "A">>
NormTables ==
    {Table(HeaderA, [i \in 1..3 |-> ("Date UTC" :> Ts(i)) @@ ("A" :> col[i])]) :
        col \in [1..3 -> {NaN, Inf, Num(1), Num(3)}]}

\* The time ranges a load may be given (start_dt, end_dt), None for Full Range
RangeTimes == {1, 2}
Ranges == {None} \cup (RangeTimes \X RangeTimes)
SessionRanges == {None, <<2, 2>>}

----------------------------------------------------------------------------
(* Initial states: DASH.__init__ (lines 176-204) *)

InitSession ==
    /\ time_col = TIME_COL
    /\ x_ns = None /\ x_sec = None
    /\ series_cols = << >>
    /\ Y_raw = EmptyDict /\ Y_norm = EmptyDict
    /\ curves = EmptyDict /\ list_series = << >> /\ pen_active_cache = EmptyDict
    /\ ds_for = EmptyDict /\ ds_default = TRUE
    /\ active_for = EmptyDict /\ current_mode = "linear"
    /\ thresholds = EmptyDict /\ find_rules = EmptyDict
    /\ event_items = << >> /\ list_events = << >>
    /\ highlight_regions = << >>
    /\ compare_data = None /\ curves_ref = EmptyDict
    /\ cmb_items = << >> /\ cmb_visible = FALSE
    /\ highlight_mode = FALSE /\ highlight_first_ns = None
    /\ bookmarks = << >> /\ list_bm = << >>
    /\ compare_mode = FALSE
    /\ vline = 0
    /\ viewRange = InitialView /\ jump_enabled = FALSE /\ blind_fits = 0
    /\ exported = None
    /\ alert = None /\ fault = "" /\ loadStack = << >>

\* The session files hold no column on which the two readers differ
Init ==
    /\ HAS_POLARS = FALSE
    /\ files = SessionFiles
    /\ InitSession

InitIngest ==
    /\ HAS_POLARS \in BOOLEAN
    /\ files \in {("in.csv" :> t) @@ ("gone.csv" :> NoFile) @@ ("empty.csv" :> Garbled) :
                    t \in GenTables}
    /\ InitSession

InitFull ==
    /\ HAS_POLARS \in BOOLEAN
    /\ files \in {("in.csv" :> t) @@ ("gone.csv" :> NoFile) : t \in WideTables \cup NormTables}
    /\ InitSession

----------------------------------------------------------------------------
(* load_and_plot (lines 433-465), split at processEvents *)

Top == loadStack[Len(loadStack)]
\* A slot can run: no exception has ended the program, and no modal message
\* box is waiting to be closed
Running == fault = "" /\ alert = None

\* _maybe_show_time_selector (535-547): whether the selector is filled
SelectorShown(header, tcol) ==
    LET cands == HeaderCandidates(header)
    IN cands # << >> /\ tcol \in Range(cands) /\ Len(cands) > 1

\* _read_and_prepare succeeded with r: lines 520-533.  Filling the selector
\* (clear, addItems on the emptied box) emits currentTextChanged with its
\* first item, and on_time_col_changed stores that as time_col.
Prepared(tbl, r) ==
    /\ series_cols' = r.num_cols
    /\ x_ns' = Some(r.x_ns) /\ x_sec' = Some(r.x_sec)
    /\ Y_raw' = r.Y_raw /\ Y_norm' = r.Y_norm
    /\ ds_for' = [c \in Range(r.num_cols) |-> ds_default]
    /\ active_for' = EmptyDict
    /\ thresholds' = EmptyDict
    /\ find_rules' = EmptyDict
    /\ event_items' = << >>
    /\ highlight_regions' = << >>
    /\ compare_data' = None /\ curves_ref' = EmptyDict
    /\ IF SelectorShown(tbl.header, r.tcol)
       THEN /\ cmb_items' = HeaderCandidates(tbl.header)
            /\ cmb_visible' = TRUE
            /\ time_col' = HeaderCandidates(tbl.header)[1]
       ELSE /\ cmb_visible' = FALSE
            /\ time_col' = r.tcol
            /\ UNCHANGED cmb_items
    /\ loadStack' = Append(loadStack, "read")
    /\ UNCHANGED <<HAS_POLARS, files, exported, viewport, marks, plotItems, ds_default, current_mode,
                   list_events, alert, fault>>

\* _read_and_prepare raised r.err: the except branch (456-458)
LoadError(r) ==
    /\ alert' = Some(<<"Load Error", r.err>>)
    /\ time_col' = IF r.stage = "prepared" THEN r.tcol ELSE time_col
    /\ UNCHANGED <<HAS_POLARS, files, exported, viewport, marks, x_ns, x_sec, series_cols, Y_raw, Y_norm,
                   plotItems, seriesState, overlays, selector, fault, loadStack>>

\* The early returns of lines 435-438
LoadRefused(title, text) ==
    /\ alert' = Some(<<title, text>>)
    /\ UNCHANGED <<HAS_POLARS, files, exported, viewport, marks, dataset, plotItems, seriesState, overlays,
                   selector, fault, loadStack>>

\* Lines 434-455: up to the processEvents after _read_and_prepare
\* A Load click dispatched by the processEvents of a load in progress starts
\* a nested load_and_plot; nest bounds the calls in progress.
LoadRead(path, rng, nest) ==
    /\ Running
    /\ Len(loadStack) < nest
    /\ IF path = "" THEN LoadRefused("Notice", "Please select a data file.")
       ELSE IF ~files[path].exists THEN LoadRefused("Error", "File does not exist.")
       ELSE \E order \in FrameOrders(files[path]) :
              LET r == ReadAndPrepare(files[path], rng, order, HAS_POLARS)
              IN IF r.ok THEN Prepared(files[path], r) ELSE LoadError(r)

Load == \E path \in DOMAIN files \cup {""}, rng \in SessionRanges : LoadRead(path, rng, MaxNest)

\* A load that is left to finish before the next one is started
LoadAlone == \E path \in DOMAIN files \cup {""}, rng \in Ranges : LoadRead(path, rng, 1)

\* The same with Full Range checked (the default): no time range
LoadFull == \E path \in DOMAIN files \cup {""} : LoadRead(path, None, 1)

\* Lines 460-461: _plot_all, up to the processEvents after it
LoadPlot ==
    /\ Running
    /\ loadStack # << >> /\ Top = "read"
    /\ PlotAll
    /\ loadStack' = [loadStack EXCEPT ![Len(loadStack)] = "plotted"]
    /\ UNCHANGED <<HAS_POLARS, files, exported, marks, dataset, ds_for, ds_default, thresholds,
                   find_rules, event_items, highlight_regions, compare_data,
                   curves_ref, selector, alert, fault>>

\* _fit_view as a step of a handler: the view and the count it leaves
Fit(view, xs, cvs, mode) ==
    /\ FitRuns(xs) /\ Blind(cvs, mode = "log") => blind_fits < MaxBlindFits
    /\ viewRange' = FitView(view, xs, cvs, mode)
    /\ blind_fits' = BlindAfter(blind_fits, xs, cvs, mode)
    /\ UNCHANGED jump_enabled

\* Lines 462-465: _fit_view and return
LoadDone ==
    /\ Running
    /\ loadStack # << >> /\ Top = "plotted"
    /\ Fit(viewRange, x_sec, curves, current_mode)
    /\ loadStack' = SubSeq(loadStack, 1, Len(loadStack) - 1)
    /\ UNCHANGED <<HAS_POLARS, files, exported, marks, dataset, plotItems, seriesState, overlays,
                   selector, alert, fault>>

\* The user closes the message box: QMessageBox.warning / critical returns,
\* and load_and_plot returns after it (436, 438, 458)
CloseAlert ==
    /\ fault = "" /\ alert # None
    /\ alert' = None
    /\ UNCHANGED <<HAS_POLARS, files, exported, viewport, marks, dataset, plotItems, seriesState, overlays,
                   selector, fault, loadStack>>

NextIngest == LoadAlone \/ LoadPlot \/ LoadDone \/ CloseAlert
SpecIngest == InitIngest /\ [][NextIngest]_vars

NextFull == LoadFull \/ LoadPlot \/ LoadDone \/ CloseAlert
SpecFull == InitFull /\ [][NextFull]_vars

----------------------------------------------------------------------------
(* Series state: the slots of the series list and of the top bar *)

\* for c in self.series_cols: self.active_for[c] = val[c]
SetActiveAll(val) ==
    LET act == [c \in DOMAIN active_for \cup Range(series_cols) |->
                  IF c \in Range(series_cols) THEN val[c] ELSE active_for[c]]
    IN /\ active_for' = act
       /\ curves' = ApplyActiveStyles(curves, act, pen_active_cache)
       /\ Fit(viewRange, x_sec, ApplyActiveStyles(curves, act, pen_active_cache), current_mode)
       /\ UNCHANGED <<HAS_POLARS, files, exported, marks, dataset, list_series, pen_active_cache,
                      ds_for, ds_default, current_mode, overlays, selector,
                      alert, fault, loadStack>>

\* on_item_clicked (682-687): a click on an item of the series list
on_item_clicked(col) ==
    /\ Running
    /\ col \in Range(list_series)
    /\ LET act == Put(active_for, col, ~Get(active_for, col, TRUE))
       IN /\ active_for' = act
          /\ curves' = ApplyActiveStyles(curves, act, pen_active_cache)
          /\ Fit(viewRange, x_sec, ApplyActiveStyles(curves, act, pen_active_cache), current_mode)
    /\ UNCHANGED <<HAS_POLARS, files, exported, marks, dataset, list_series, pen_active_cache,
                   ds_for, ds_default, current_mode, overlays, selector,
                   alert, fault, loadStack>>

ItemClicked == \E col \in Range(list_series) : on_item_clicked(col)

\* select_all_on (689-691)
select_all_on == Running /\ SetActiveAll([c \in Range(series_cols) |-> TRUE])

\* select_all_off (693-695)
select_all_off == Running /\ SetActiveAll([c \in Range(series_cols) |-> FALSE])

\* select_invert (697-699)
select_invert ==
    Running /\ SetActiveAll([c \in Range(series_cols) |-> ~Get(active_for, c, TRUE)])

\* show_first_only (774-784): the series of largest finite magnitude, the
\* first of them in column order; nothing happens when no series has a
\* finite value
FirstOnlyBest ==
    LET mag(c) == Score(Y_raw[c])
        cand == {i \in DOMAIN series_cols :
                    /\ mag(series_cols[i]).n > 0
                    /\ \A j \in DOMAIN series_cols :
                          mag(series_cols[j]).n > 0 =>
                            \/ mag(series_cols[j]).m < mag(series_cols[i]).m
                            \/ (mag(series_cols[j]).m = mag(series_cols[i]).m /\ i <= j)}
    IN IF cand = {} THEN None ELSE Some(series_cols[MinOf(cand)])

show_first_only ==
    /\ Running
    /\ series_cols # << >>
    /\ FirstOnlyBest # None
    /\ SetActiveAll([c \in Range(series_cols) |-> c = FirstOnlyBest[1]])

\* on_series_context_menu, "Toggle Downsampling" (733-738)
toggle_ds_series(col) ==
    /\ Running
    /\ col \in Range(list_series)
    /\ LET flag == ~Get(ds_for, col, ds_default)
       IN /\ ds_for' = Put(ds_for, col, flag)
          /\ curves' = IF col \in DOMAIN curves
                       THEN [curves EXCEPT ![col].ds = flag] ELSE curves
    /\ UNCHANGED <<HAS_POLARS, files, exported, viewport, marks, dataset, list_series, pen_active_cache,
                   ds_default, active_for, current_mode, overlays, selector,
                   alert, fault, loadStack>>

ToggleDsSeries == \E col \in Range(list_series) : toggle_ds_series(col)

\* toggle_ds_global (756-763): the button flips, every curve follows
toggle_ds_global ==
    /\ Running
    /\ ds_default' = ~ds_default
    /\ ds_for' = [c \in DOMAIN ds_for \cup DOMAIN curves |->
                    IF c \in DOMAIN curves THEN ~ds_default ELSE ds_for[c]]
    /\ curves' = [c \in DOMAIN curves |-> [curves[c] EXCEPT !.ds = ~ds_default]]
    /\ UNCHANGED <<HAS_POLARS, files, exported, viewport, marks, dataset, list_series, pen_active_cache,
                   active_for, current_mode, overlays, selector, alert, fault,
                   loadStack>>

\* on_scale_changed (550-561) with _update_curves_for_mode (563-579): every
\* curve is redrawn from Y_raw / Y_norm and takes its downsampling flag again.
\* self.Y_raw[col] raises KeyError for a curve that is no series of the
\* Dataset; the exception escapes the slot.
Modes == {"linear", "log", "normalize"}
on_scale_changed(mode) ==
    /\ Running
    /\ current_mode' = mode
    /\ IF DOMAIN curves \subseteq DOMAIN Y_raw
       THEN LET cvs == [c \in DOMAIN curves |->
                          [curves[c] EXCEPT !.ds = Get(ds_for, c, ds_default),
                                            !.x = x_sec[1],
                                            !.y = DisplayData(Y_raw[c], Y_norm[c], mode)]]
                yr == SetAxis(0, VIEW_UNIT)
                v0 == IF mode = "normalize"
                      THEN [viewRange EXCEPT !.y0 = yr[1], !.y1 = yr[2]] ELSE viewRange
            IN /\ curves' = cvs
               /\ fault' = fault
               /\ Fit(v0, x_sec, cvs, mode)
       ELSE /\ curves' = curves
            /\ fault' = "KeyError"
            /\ UNCHANGED viewport
    /\ UNCHANGED <<HAS_POLARS, files, exported, marks, dataset, list_series, pen_active_cache,
                   ds_for, ds_default, active_for, overlays, selector, alert,
                   loadStack>>

ScaleChanged == \E mode \in Modes : on_scale_changed(mode)

----------------------------------------------------------------------------
(* float64 arithmetic of the rule scan: the quotient and the product of
   lines 1027 / 1036 are rounded to 53 significant bits, ties to even.
   A positive double is [m, e]: m holds its 53 bits and one zero bit after
   them as six digits of nine bits, most significant first, and e is the
   binary exponent of the first bit; zero has m = << >>. *)

DIGIT == 512
DIGIT_BITS == 9
MANT_DIGITS == 6
Zero64 == [m |-> << >>, e |-> 0]

RECURSIVE Pow2(_)
Pow2(k) == IF k = 0 THEN 1 ELSE 2 * Pow2(k - 1)

\* floor(log2(a / b)) for positive integers a, b
RECURSIVE ExpUp(_, _, _)
ExpUp(a, b, k) == IF 2 * b * Pow2(k) <= a THEN ExpUp(a, b, k + 1) ELSE k
RECURSIVE ExpDown(_, _, _)
ExpDown(a, b, k) == IF a * Pow2(k) >= b THEN -k ELSE ExpDown(a, b, k + 1)
ExpOf(a, b) == IF a >= b THEN ExpUp(a, b, 0) ELSE ExpDown(a, b, 1)

\* The number of bits of n
RECURSIVE BitLen(_)
BitLen(n) == IF n = 0 THEN 0 ELSE 1 + BitLen(n \div 2)

\* Bit i of a digit string (bit 1 is the most significant); 0 beyond its end
BitAt(ds, i) ==
    LET q == (i - 1) \div DIGIT_BITS + 1
        o == (i - 1) % DIGIT_BITS
    IN IF q > Len(ds) THEN 0 ELSE (ds[q] \div Pow2(DIGIT_BITS - 1 - o)) % 2

\* Some bit after bit i is set
AnyBelow(ds, i) ==
    LET q == (i - 1) \div DIGIT_BITS + 1
        o == (i - 1) % DIGIT_BITS
    IN \/ q <= Len(ds) /\ ds[q] % Pow2(DIGIT_BITS - 1 - o) # 0
       \/ \E j \in (q + 1)..Len(ds) : ds[j] # 0

\* The nine bits from bit i on, as a number
Slice(ds, i) ==
    LET q  == (i - 1) \div DIGIT_BITS + 1
        o  == (i - 1) % DIGIT_BITS
        at(j) == IF j \in DOMAIN ds THEN ds[j] ELSE 0
    IN (at(q) % Pow2(DIGIT_BITS - o)) * Pow2(o) + at(q + 1) \div Pow2(DIGIT_BITS - o)

\* The first n bits of a digit string, as a number
RECURSIVE TopBits(_, _, _)
TopBits(ds, n, acc) ==
    IF n <= 0 THEN acc
    ELSE IF ds = << >> THEN acc * Pow2(n)
    ELSE IF n >= DIGIT_BITS THEN TopBits(Tail(ds), n - DIGIT_BITS, acc * DIGIT + Head(ds))
    ELSE acc * Pow2(n) + Head(ds) \div Pow2(DIGIT_BITS - n)

\* ds + 1 in its last place; a carry out of the first digit leaves it at DIGIT
RECURSIVE IncDigits(_)
IncDigits(ds) ==
    LET n == Len(ds)
    IN IF n = 1 THEN <<ds[1] + 1>>
       ELSE IF ds[n] + 1 < DIGIT THEN SubSeq(ds, 1, n - 1) \o <<ds[n] + 1>>
       ELSE IncDigits(SubSeq(ds, 1, n - 1)) \o <<0>>

\* Round the digit string ds, whose first bit has exponent w, to a double:
\* the 53 bits from its first set bit on, to nearest, ties to even; sticky
\* tells of set bits beyond the string
RoundEven(ds, w, sticky) ==
    LET first == CHOOSE q \in DOMAIN ds : ds[q] # 0 /\ \A j \in 1..(q - 1) : ds[j] = 0
        lead  == DIGIT_BITS * first - BitLen(ds[first]) + 1
        e     == w - (lead - 1)
        last  == lead + DIGIT_BITS * MANT_DIGITS - 1
        m54   == [k \in 1..MANT_DIGITS |-> Slice(ds, lead + DIGIT_BITS * (k - 1))]
        guard == m54[MANT_DIGITS] % 2
        lsb   == (m54[MANT_DIGITS] \div 2) % 2
        more  == sticky \/ AnyBelow(ds, last)
        m53   == [m54 EXCEPT ![MANT_DIGITS] = m54[MANT_DIGITS] - guard]
        inc   == IncDigits(IncDigits(m53))
    IN IF ~(guard = 1 /\ (more \/ lsb = 1)) THEN [m |-> m53, e |-> e]
       ELSE IF inc[1] = DIGIT
            THEN [m |-> [k \in 1..MANT_DIGITS |-> IF k = 1 THEN DIGIT \div 2 ELSE 0],
                  e |-> e + 1]
       ELSE [m |-> inc, e |-> e]

\* The digits of r / den after the binary point (r < den), n of them, and
\* what is left of r
RECURSIVE DivDigits(_, _, _)
DivDigits(r, den, n) ==
    IF n = 0 THEN [ds |-> << >>, rest |-> r]
    ELSE LET tl == DivDigits((r * DIGIT) % den, den, n - 1)
         IN [ds |-> <<(r * DIGIT) \div den>> \o tl.ds, rest |-> tl.rest]

\* a / b in float64, for positive integers a and b
fdiv(a, b) ==
    LET e   == ExpOf(a, b)
        num == IF e < 0 THEN a * Pow2(-e) ELSE a
        den == IF e > 0 THEN b * Pow2(e) ELSE b
        d1  == (num * (DIGIT \div 2)) \div den
        q   == DivDigits((num * (DIGIT \div 2)) % den, den, MANT_DIGITS - 1)
    IN RoundEven(<<d1>> \o q.ds, e, q.rest # 0)

\* The digits of ds * k + carry, k a small positive integer; the first digit
\* is the carry out
RECURSIVE MulDigits(_, _, _)
MulDigits(ds, k, carry) ==
    IF ds = << >> THEN <<carry>>
    ELSE LET n == Len(ds)
             x == ds[n] * k + carry
         IN MulDigits(SubSeq(ds, 1, n - 1), k, x \div DIGIT) \o <<x % DIGIT>>

\* x * k, exact: a digit string and the exponent of its first bit
MulExact(x, k) == [ds |-> MulDigits(x.m, k, 0), w |-> x.e + DIGIT_BITS]

\* x * k in float64
fmul(x, k) ==
    IF x.m = << >> THEN Zero64
    ELSE LET p == MulExact(x, k) IN RoundEven(p.ds, p.w, FALSE)

\* The whole part of a double x >= 0; x >= p for a whole number p exactly
\* when Floor64(x) >= p
Floor64(x) == IF x.m = << >> \/ x.e < 0 THEN 0 ELSE TopBits(x.m, x.e + 1, 0)

\* f"{x:.1f}": the tenths of x, correctly rounded, ties to even
Tenths(x) ==
    IF x.m = << >> THEN 0
    ELSE LET p     == MulExact(x, 10)
             whole == TopBits(p.ds, p.w + 1, 0)
             guard == IF p.w < -1 THEN 0 ELSE BitAt(p.ds, p.w + 2)
             more  == IF p.w < -1 THEN TRUE ELSE AnyBelow(p.ds, p.w + 2)
         IN IF guard = 1 /\ (more \/ whole % 2 = 1) THEN whole + 1 ELSE whole

\* abs((cur - prev) / prev) * 100.0 (1027, 1036); None where prev is zero
\* (the quotient is NaN there)
Pct64(prev, cur) ==
    IF cur = prev THEN Zero64 ELSE fmul(fdiv(Abs(cur - prev), Abs(prev)), 100)

\* pct as the scan uses it: its whole part (for pct >= p) and its tenths
\* (for the label)
PctOf(prev, cur) ==
    IF prev = 0 THEN None
    ELSE Some([floor |-> Floor64(Pct64(prev, cur)), tenths |-> Tenths(Pct64(prev, cur))])

\* The same, worked out once for the sample values of the session files
\* (@@ makes the table an explicit one)
Samples == {-5, 0, 1, 2, 3, 5, 7, 10, 100, 157}
PctTable == [pr \in Samples \X Samples |-> PctOf(pr[1], pr[2])] @@ << >>
Pct(prev, cur) ==
    IF <<prev, cur>> \in DOMAIN PctTable THEN PctTable[<<prev, cur>>] ELSE PctOf(prev, cur)

----------------------------------------------------------------------------
(* Rules and the event log: ConditionDialog, run_event_finder,
   add_event_at_cursor, _add_event_line *)

MaxEvents == 4      \* entries of the event log

\* self.find_rules is a dict, read in insertion order by run_event_finder:
\* a sequence of [col, rules]; rules is the dict of result_rules (163-168)
RuleKeys == <<"gt", "lt", "deltapct">>
OrderedKeys(od) == {od[i].col : i \in DOMAIN od}
OrderedPut(od, key, val) ==
    IF key \in OrderedKeys(od)
    THEN [i \in DOMAIN od |-> IF od[i].col = key THEN [col |-> key, rules |-> val] ELSE od[i]]
    ELSE Append(od, [col |-> key, rules |-> val])
OrderedPop(od, key) == SelectSeq(od, LAMBDA en : en.col # key)

\* A text is a string; the model keeps it as the words that " / " joins.
\* f"{col}>" and f"{col}<" are Word(col, ">") and Word(col, "<"),
\* f"{col} Δ{pct:.1f}%" is Word(col, "d") with the tenths of pct, and a bare
\* word w (a series name, or what the user typed) is Word(w, "")
Word(w, op) == [col |-> w, op |-> op, pct |-> 0]
DeltaWord(col, tenths) == [col |-> col, op |-> "d", pct |-> tenths]

\* _add_event_line (1004-1012): the entry of event_items, the item of
\* list_events
EventEntry(ns, text) == [x_ns |-> ns, series |-> None, text |-> text]
EventItem(ns, text) == [t |-> ns, text |-> text]

\* An entry put in front of the log instead of behind it
add_event_line_first(log, ns, text) == <<EventEntry(ns, text)>> \o log

\* self.event_items.append(...) (1010)
add_event_line(log, ns, text) == Append(log, EventEntry(ns, text))

\* Lines 1023-1028 and 1033-1037 for sample i of the finite samples yy
FiresGt(rules, yy, i) == "gt" \in DOMAIN rules /\ yy[i] > rules["gt"]
FiresLt(rules, yy, i) == "lt" \in DOMAIN rules /\ yy[i] < rules["lt"]
\* dy (1026-1027), pct (1036): None is NaN
DeltaPct(rules, yy, i) ==
    IF "deltapct" \in DOMAIN rules /\ i > 1 THEN Pct(yy[i - 1], yy[i]) ELSE None
FiresDelta(rules, dy, i) ==
    /\ "deltapct" \in DOMAIN rules
    /\ dy[i] # None
    /\ dy[i][1].floor >= rules["deltapct"]

\* A scan whose Hits depend on what the log already holds
hits_idxFresh(rules, yy, dy, i) ==
    /\ event_items = << >>
    /\ FiresGt(rules, yy, i) \/ FiresLt(rules, yy, i) \/ FiresDelta(rules, dy, i)

\* hits_idx (1022-1028)
hits_idx(rules, yy, dy, i) ==
    FiresGt(rules, yy, i) \/ FiresLt(rules, yy, i) \/ FiresDelta(rules, dy, i)

\* label, text (1032-1038)
HitText(col, rules, yy, dy, i) ==
    LET label == (IF FiresGt(rules, yy, i) THEN <<Word(col, ">")>> ELSE << >>)
                 \o (IF FiresLt(rules, yy, i) THEN <<Word(col, "<")>> ELSE << >>)
                 \o (IF FiresDelta(rules, dy, i)
                     THEN <<DeltaWord(col, dy[i][1].tenths)>>
                     ELSE << >>)
    IN IF label # << >> THEN label ELSE <<Word(col, "")>>

\* The body of the loop of run_event_finder for one series (1018-1041): the
\* entries it appends
MinScanRows == 2

\* The Hits of one series, the latest first
SeriesHitsLatestFirst(col, rules, xs, y) ==
    IF Len(y) < MinScanRows THEN << >>
    ELSE LET valid == [i \in DOMAIN y |-> isfinite(y[i])]
             xv    == Masked(xs, valid)
             yv    == Masked(y, valid)
             yy    == [i \in DOMAIN xv |-> yv[i].v]
             dy    == [i \in DOMAIN yy |-> DeltaPct(rules, yy, i)]
             hit   == [i \in DOMAIN yy |-> hits_idx(rules, yy, dy, i)]
             H     == Masked([i \in DOMAIN yy |->
                                IF hit[i] THEN EventEntry(xv[i], HitText(col, rules, yy, dy, i))
                                ELSE EventEntry(xv[i], << >>)],
                             hit)
         IN [i \in DOMAIN H |-> H[Len(H) + 1 - i]]

SeriesHits(col, rules, xs, y) ==
    IF Len(y) < MinScanRows THEN << >>
    ELSE LET valid == [i \in DOMAIN y |-> isfinite(y[i])]
             xv    == Masked(xs, valid)
             yv    == Masked(y, valid)
             yy    == [i \in DOMAIN xv |-> yv[i].v]
             dy    == [i \in DOMAIN yy |-> DeltaPct(rules, yy, i)]
             hit   == [i \in DOMAIN yy |-> hits_idx(rules, yy, dy, i)]
         IN Masked([i \in DOMAIN yy |->
                       IF hit[i] THEN EventEntry(xv[i], HitText(col, rules, yy, dy, i))
                       ELSE EventEntry(xv[i], << >>)],
                   hit)

\* for col, rules in self.find_rules.items() (1017-1019)
RECURSIVE ScanHits(_, _, _)
ScanHits(od, xs, Yr) ==
    IF od = << >> THEN << >>
    ELSE (IF Head(od).col \in DOMAIN Yr
          THEN SeriesHits(Head(od).col, Head(od).rules, xs, Yr[Head(od).col])
          ELSE << >>)
         \o ScanHits(Tail(od), xs, Yr)

\* Each hit is put on list_events by _add_event_line (1012) and once more by
\* line 1041
RECURSIVE ScanItems(_)
ScanItems(H) ==
    IF H = << >> THEN << >>
    ELSE <<EventItem(Head(H).x_ns, Head(H).text), EventItem(Head(H).x_ns, Head(H).text)>>
         \o ScanItems(Tail(H))

\* A scan that skips the rules of the series that are not active
run_event_finder_active ==
    /\ Running
    /\ x_sec # None /\ find_rules # << >>
    /\ LET H == ScanHits(SelectSeq(find_rules,
                                   LAMBDA en : en.col \in DOMAIN active_for /\ active_for[en.col]),
                         x_ns[1], Y_raw)
       IN /\ Len(event_items) + Len(H) <= MaxEvents
          /\ event_items' = event_items \o H
          /\ list_events' = list_events \o ScanItems(H)
    /\ UNCHANGED <<HAS_POLARS, files, exported, viewport, marks, dataset, plotItems, seriesState,
                   thresholds, find_rules, highlight_regions, compare_data,
                   curves_ref, selector, alert, fault, loadStack>>

\* run_event_finder (1015-1041)
run_event_finder ==
    /\ Running
    /\ x_sec # None /\ find_rules # << >>
    /\ LET H == ScanHits(find_rules, x_ns[1], Y_raw)
       IN /\ Len(event_items) + Len(H) <= MaxEvents
          /\ event_items' = event_items \o H
          /\ list_events' = list_events \o ScanItems(H)
    /\ UNCHANGED <<HAS_POLARS, files, exported, viewport, marks, dataset, plotItems, seriesState,
                   thresholds, find_rules, highlight_regions, compare_data,
                   curves_ref, selector, alert, fault, loadStack>>

\* on_series_context_menu, "Set Conditions…" (745-750), the dialog accepted
\* with the boxes and values of rules
set_conditions(col, rules) ==
    /\ Running
    /\ col \in Range(list_series)
    /\ find_rules' = IF DOMAIN rules # {} THEN OrderedPut(find_rules, col, rules)
                     ELSE OrderedPop(find_rules, col)
    /\ UNCHANGED <<HAS_POLARS, files, exported, viewport, marks, dataset, plotItems, seriesState,
                   thresholds, event_items, list_events, highlight_regions,
                   compare_data, curves_ref, selector, alert, fault, loadStack>>

\* add_event_at_cursor (993-1002): the cursor is nearest to row idx; the
\* prompt returns (text, ok). argmin of an empty array raises ValueError.
add_event_at_cursor(idx, text, ok) ==
    /\ Running
    /\ x_sec # None
    /\ IF x_ns[1] = << >>
       THEN /\ fault' = "ValueError"
            /\ UNCHANGED <<event_items, list_events>>
       ELSE /\ idx \in DOMAIN x_ns[1]
            /\ fault' = fault
            /\ IF ~ok \/ text = << >>
               THEN UNCHANGED <<event_items, list_events>>
               ELSE /\ Len(event_items) < MaxEvents
                    /\ event_items' = add_event_line(event_items, x_ns[1][idx], text)
                    /\ list_events' = Append(list_events, EventItem(x_ns[1][idx], text))
    /\ UNCHANGED <<HAS_POLARS, files, exported, viewport, marks, dataset, plotItems, seriesState,
                   thresholds, find_rules, highlight_regions, compare_data,
                   curves_ref, selector, alert, loadStack>>

\* What the user sets in the dialog and types at the prompt
Rule(keys, vals) == [k \in keys |-> vals[k]]
RuleValues == ("gt" :> 4) @@ ("lt" :> 6) @@ ("deltapct" :> 50)
RuleChoices ==
    {Rule(keys, RuleValues) :
        keys \in {{}, {"gt"}, {"lt"}, {"gt", "lt"}, {"deltapct"}, Range(RuleKeys)}}
        \cup {Rule({"deltapct"}, "deltapct" :> 57)}
NoteTexts == {<< >>, <<Word("check", "")>>, <<Word("A", ">")>>}

SetConditions == \E col \in Range(list_series), rules \in RuleChoices : set_conditions(col, rules)
AddEventAtCursor ==
    \E idx \in 1..MaxRows, text \in NoteTexts, ok \in BOOLEAN :
        add_event_at_cursor(idx, text, ok)

\* The files of the scanning session
HeaderA2 == <<"Date UTC", "A">>
Row2(t, a) == ("Date UTC" :> t) @@ ("A" :> a)
ScanTables ==
    {Table(HeaderA2, <<Row2(Ts(1), Num(10)), Row2(Ts(2), Num(5)),
                                     Row2(Ts(3), Num(0)), Row2(Ts(4), Num(-5))>>),
     Table(HeaderA2, <<Row2(Ts(1), Num(100)), Row2(Ts(2), Num(157))>>),
     Table(HeaderA2, <<Row2(Ts(1), Num(7))>>),
     Table(HeaderAB, <<Row3(HeaderAB, Ts(1), Num(10), Num(1)),
                       Row3(HeaderAB, Ts(2), NaN, Num(2)),
                       Row3(HeaderAB, Ts(3), Num(5), Num(3))>>)}

InitScan ==
    /\ HAS_POLARS = FALSE
    /\ \E t \in ScanTables : files = ("data.csv" :> t)
    /\ InitSession

\* The user lets a load finish before touching the rules
Idle == loadStack = << >>
SetConditionsIdle == Idle /\ SetConditions
ScanIdle == Idle /\ run_event_finder

\* Load with the file of the session in the path box and Full Range checked
LoadData == LoadRead("data.csv", None, 1)

NextScan ==
    \/ LoadData \/ LoadPlot \/ LoadDone
    \/ SetConditionsIdle \/ ScanIdle

SpecScan == InitScan /\ [][NextScan]_vars

----------------------------------------------------------------------------
(* A scanning session on a file whose rows are not in time order *)

OrderTable ==
    Table(HeaderAB, <<Row3(HeaderAB, Ts(3), Num(5), Num(3)),
                      Row3(HeaderAB, Ts(1), Num(10), Num(1)),
                      Row3(HeaderAB, Ts(2), NaN, Num(2))>>)

InitOrder ==
    /\ HAS_POLARS = FALSE
    /\ files = ("data.csv" :> OrderTable)
    /\ InitSession

SpecOrder == InitOrder /\ [][NextScan]_vars

----------------------------------------------------------------------------
(* Annotations: thresholds, highlight regions, bookmarks *)

MaxMarks == 2       \* thresholds of a series, highlight regions, bookmarks

\* add_threshold_line (984-991), called by the context menu's
\* "Add Threshold Line…" when the prompt is accepted (751-754)
Threshold(value) == [op |-> "=", value |-> value]
\* A list that is replaced by its newest entry
setdefault_replace(d, col, x) == Put(d, col, <<x>>)
\* self.thresholds.setdefault(col, []).append(...) (991)
setdefault_append(d, col, x) == Put(d, col, Append(Get(d, col, << >>), x))
add_threshold_line(col, value) ==
    /\ Running
    /\ col \in Range(list_series)
    /\ Len(Get(thresholds, col, << >>)) < MaxMarks
    /\ thresholds' = setdefault_append(thresholds, col, Threshold(value))
    /\ UNCHANGED <<HAS_POLARS, files, exported, viewport, marks, dataset, plotItems, seriesState,
                   find_rules, event_items, list_events, highlight_regions,
                   compare_data, curves_ref, selector, alert, fault, loadStack>>

\* A toggle that leaves the anchor as it is
toggle_highlight_keep ==
    /\ Running
    /\ highlight_mode' = ~highlight_mode
    /\ UNCHANGED <<HAS_POLARS, files, exported, viewport, highlight_first_ns, bookmarks, list_bm,
                   compare_mode, vline, dataset, plotItems, seriesState, overlays,
                   selector, alert, fault, loadStack>>

\* toggle_highlight_mode (978-982): the button is checkable, a click flips it
toggle_highlight_mode ==
    /\ Running
    /\ highlight_mode' = ~highlight_mode
    /\ highlight_first_ns' = None
    /\ UNCHANGED <<HAS_POLARS, files, exported, viewport, bookmarks, list_bm, compare_mode, vline,
                   dataset, plotItems, seriesState, overlays, selector, alert, fault,
                   loadStack>>

\* A region from the first click to the second, in the order clicked
RegionAsClicked(a, b, text) == [s_ns |-> a, e_ns |-> b, text |-> text]

\* The region of two clicked instants (837-838) with its label
Region(a, b, text) ==
    [s_ns |-> IF a <= b THEN a ELSE b, e_ns |-> IF a <= b THEN b ELSE a, text |-> text]

\* A prompt that commits whenever it is accepted, with an empty label too
AcceptedAny(text, ok) == ok
\* if ok and text (840)
Accepted(text, ok) == ok /\ text # << >>

\* on_plot_clicked (809-848): a left click inside the plot, nearest to row
\* idx; the label prompt of a second highlight click returns (text, ok).
\* argmin of an empty array raises ValueError (815); the cursor line moves to
\* the row (817); self.Y_raw[col] raises KeyError for an active name that is
\* no series of the Dataset (822).
on_plot_clicked(idx, text, ok) ==
    /\ Running
    /\ x_sec # None /\ x_ns # None
    /\ IF x_sec[1] = << >>
       THEN /\ fault' = "ValueError"
            /\ UNCHANGED <<vline, highlight_mode, highlight_first_ns, highlight_regions>>
       ELSE IF \E c \in DOMAIN active_for : active_for[c] /\ c \notin DOMAIN Y_raw
       THEN /\ idx \in DOMAIN x_sec[1]
            /\ vline' = x_sec[1][idx]
            /\ fault' = "KeyError"
            /\ UNCHANGED <<highlight_mode, highlight_first_ns, highlight_regions>>
       ELSE /\ idx \in DOMAIN x_ns[1]
            /\ vline' = x_sec[1][idx]
            /\ fault' = fault
            /\ IF ~highlight_mode
               THEN UNCHANGED <<highlight_mode, highlight_first_ns, highlight_regions>>
               ELSE IF highlight_first_ns = None
               THEN /\ highlight_first_ns' = Some(x_ns[1][idx])
                    /\ UNCHANGED <<highlight_mode, highlight_regions>>
               ELSE /\ IF Accepted(text, ok)
                       THEN /\ Len(highlight_regions) < MaxMarks
                            /\ highlight_regions' =
                                 Append(highlight_regions,
                                        Region(highlight_first_ns[1], x_ns[1][idx], text))
                       ELSE UNCHANGED highlight_regions
                    /\ highlight_first_ns' = None
                    /\ highlight_mode' = FALSE
    /\ UNCHANGED <<HAS_POLARS, files, exported, viewport, bookmarks, list_bm, compare_mode, dataset,
                   plotItems, seriesState, thresholds, find_rules, event_items,
                   list_events, compare_data, curves_ref, selector, alert, loadStack>>

\* add_bookmark_dialog (945-956): the middle of the view is nearest to row
\* idx; the prompt returns (label, ok); an empty label becomes the time
TimeLabel(ns) == <<[col |-> "time", op |-> "", pct |-> ns]>>
add_bookmark_dialog(idx, label, ok) ==
    /\ Running
    /\ x_sec # None
    /\ IF x_sec[1] = << >>
       THEN /\ fault' = "ValueError"
            /\ UNCHANGED <<bookmarks, list_bm>>
       ELSE /\ idx \in DOMAIN x_ns[1]
            /\ fault' = fault
            /\ IF ~ok THEN UNCHANGED <<bookmarks, list_bm>>
               ELSE LET lbl == IF label = << >> THEN TimeLabel(x_ns[1][idx]) ELSE label
                    IN /\ Len(list_bm) < MaxMarks
                       /\ bookmarks' = Append(bookmarks, <<x_ns[1][idx], lbl>>)
                       /\ list_bm' = Append(list_bm, lbl)
    /\ UNCHANGED <<HAS_POLARS, files, exported, viewport, highlight_mode, highlight_first_ns, compare_mode,
                   vline, dataset, plotItems, seriesState, overlays, selector, alert,
                   loadStack>>

\* s without its first element, whatever the position asked for
PopFirst(s, idx) == Tail(s)
\* s with its element at 0-based position idx taken out (list.pop, takeItem)
Pop(s, idx) == SubSeq(s, 1, idx) \o SubSeq(s, idx + 2, Len(s))

\* A deletion that takes the item off the list and keeps the bookmark
del_bookmark_item_only(idx) ==
    /\ Running
    /\ idx \in -1..(Len(list_bm) - 1)
    /\ IF idx < 0 THEN UNCHANGED list_bm ELSE list_bm' = Pop(list_bm, idx)
    /\ UNCHANGED <<HAS_POLARS, files, exported, viewport, highlight_mode, highlight_first_ns,
                   bookmarks, compare_mode, vline, dataset, plotItems, seriesState, overlays,
                   selector, alert, fault, loadStack>>

\* del_bookmark (966-970): idx is the current row of the list, -1 when no item
\* is current
del_bookmark(idx) ==
    /\ Running
    /\ idx \in -1..(Len(list_bm) - 1)
    /\ IF idx < 0 THEN UNCHANGED <<bookmarks, list_bm>>
       ELSE /\ list_bm' = Pop(list_bm, idx)
            /\ bookmarks' = IF 0 <= idx /\ idx < Len(bookmarks) THEN Pop(bookmarks, idx)
                            ELSE bookmarks
    /\ UNCHANGED <<HAS_POLARS, files, exported, viewport, highlight_mode, highlight_first_ns, compare_mode,
                   vline, dataset, plotItems, seriesState, overlays, selector, alert,
                   fault, loadStack>>

\* jump_bookmark (958-964) with _jump_to_ns (972-975): idx is the row of the
\* current item of the list, -1 when no item is current; the cursor line
\* moves to the instant of the bookmark
JUMP_HALF == 5
\* _jump_to_ns (972-975), on the view: five seconds to either side
ViewAfterJump(view, x) ==
    LET xr == SetAxis((x - JUMP_HALF) * VIEW_UNIT, (x + JUMP_HALF) * VIEW_UNIT)
    IN [view EXCEPT !.x0 = xr[1], !.x1 = xr[2]]

jump_bookmark(idx) ==
    /\ Running
    /\ idx \in -1..(Len(list_bm) - 1)
    /\ vline' = IF idx < 0 \/ idx >= Len(bookmarks) THEN vline ELSE bookmarks[idx + 1][1]
    /\ viewRange' = IF idx < 0 \/ idx >= Len(bookmarks) THEN viewRange
                    ELSE ViewAfterJump(viewRange, bookmarks[idx + 1][1])
    /\ UNCHANGED <<HAS_POLARS, files, exported, jump_enabled, blind_fits, highlight_mode, highlight_first_ns, bookmarks,
                   list_bm, compare_mode, dataset, plotItems, seriesState, overlays,
                   selector, alert, fault, loadStack>>

LabelTexts == {<< >>, <<Word("dip", "")>>}
ThresholdValues == {0, 5}

AddThreshold ==
    \E col \in Range(list_series), value \in ThresholdValues : add_threshold_line(col, value)
PlotClicked ==
    \E idx \in 1..MaxRows, text \in LabelTexts, ok \in BOOLEAN : on_plot_clicked(idx, text, ok)
AddBookmark ==
    \E idx \in 1..MaxRows, label \in LabelTexts, ok \in BOOLEAN :
        add_bookmark_dialog(idx, label, ok)
DelBookmark == \E idx \in -1..(MaxMarks - 1) : del_bookmark(idx)
JumpBookmark == \E idx \in -1..(MaxMarks - 1) : jump_bookmark(idx)

----------------------------------------------------------------------------
(* Compare overlay: toggle_compare_mode, open_compare_file,
   plot_compare_overlay *)

\* Lines 1069-1090: what open_compare_file reads from the reference file, or
\* the exception it raises. No time range, no row mask, no check for series.
ReadCompare(tbl, order, polars) ==
    IF ~tbl.readable THEN [ok |-> FALSE, err |-> MSG_READ]
    ELSE IF polars /\ is_numeric_dtype(tbl, DetectTimeCol(tbl.header), TRUE)
    THEN [ok |-> FALSE, err |-> MSG_STRPTIME]
    ELSE
    LET tcol == DetectTimeCol(tbl.header)
        df == Permuted(DropNullTs(tcol, tbl.rows), order)
        num_cols == NumCols(tbl, tbl.header, tcol, polars)
        xns == [i \in DOMAIN df |-> df[i].ts]
    IN [ok |-> TRUE, err |-> "",
        data |-> [x_ns |-> xns, x_sec |-> xns,
                  Y_raw |-> [c \in Range(num_cols) |-> [i \in DOMAIN df |-> df[i].row[c]]],
                  series_cols |-> num_cols]]

\* plot_compare_overlay (1095-1102): a dotted curve for every series of the
\* Dataset that the reference has too
CompareOverlay(refs, cols, data) ==
    [c \in DOMAIN refs \cup (Range(cols) \cap Range(data.series_cols)) |->
        IF c \in Range(cols) \cap Range(data.series_cols)
        THEN [x |-> data.x_sec, y |-> data.Y_raw[c]]
        ELSE refs[c]]

\* toggle_compare_mode (1053-1062): the button is checkable, a click flips it
toggle_compare_mode ==
    /\ Running
    /\ compare_mode' = ~compare_mode
    /\ curves_ref' = IF compare_mode THEN EmptyDict ELSE curves_ref
    /\ UNCHANGED <<HAS_POLARS, files, exported, viewport, highlight_mode, highlight_first_ns, bookmarks,
                   list_bm, vline, dataset, plotItems, seriesState, thresholds, find_rules,
                   event_items, list_events, highlight_regions, compare_data,
                   selector, alert, fault, loadStack>>

\* open_compare_file (1064-1093): the file dialog returns path
open_compare_file(path) ==
    /\ Running
    /\ compare_mode
    /\ path \in DOMAIN files /\ files[path].exists
    /\ \E order \in FrameOrders(files[path]) :
          LET r == ReadCompare(files[path], order, HAS_POLARS)
          IN IF r.ok
             THEN /\ compare_data' = Some(r.data)
                  /\ curves_ref' = CompareOverlay(curves_ref, series_cols, r.data)
                  /\ alert' = alert
             ELSE /\ alert' = Some(<<"Compare Error", r.err>>)
                  /\ UNCHANGED <<compare_data, curves_ref>>
    /\ UNCHANGED <<HAS_POLARS, files, exported, viewport, marks, dataset, plotItems, seriesState,
                   thresholds, find_rules, event_items, list_events,
                   highlight_regions, selector, fault, loadStack>>

OpenCompare == \E path \in DOMAIN files : open_compare_file(path)

----------------------------------------------------------------------------
(* The annotating session: every kind of annotation, with activation
   toggles, scale changes and compare, on one small file *)

AnnotFiles ==
    ("data.csv" :> Table(HeaderA2, <<Row2(Ts(1), Num(10)), Row2(Ts(2), Num(5))>>))
    @@ ("empty.csv" :> Garbled)

InitAnnot ==
    /\ HAS_POLARS = FALSE
    /\ files = AnnotFiles
    /\ InitSession

\* The view stands where a jump to a bookmark left it: ten seconds or more
\* along X, which no Dataset of these sessions spans
Jumped == viewRange.x1 - viewRange.x0 >= 2 * JUMP_HALF * VIEW_UNIT

\* The features the user has in use besides the rules and the event log;
\* in this session one at a time
Touched ==
    (IF \/ current_mode # "linear"
        \/ \E c \in DOMAIN active_for : ~active_for[c]
        \/ blind_fits > 0
     THEN {"view"} ELSE {})
    \cup (IF compare_mode \/ compare_data # None \/ curves_ref # EmptyDict
          THEN {"compare"} ELSE {})
    \cup (IF highlight_mode \/ highlight_regions # << >> THEN {"highlight"} ELSE {})
    \cup (IF thresholds # EmptyDict THEN {"threshold"} ELSE {})
    \cup (IF list_bm # << >> \/ Jumped THEN {"bookmark"} ELSE {})
Using(feature) == Touched \subseteq {feature}

AnnotRules == {Rule({"gt"}, RuleValues)}
SetConditionsAnnot == \E rules \in AnnotRules : set_conditions("A", rules)
AddNote ==
    \E text \in {<< >>, <<Word("A", ">")>>}, ok \in BOOLEAN : add_event_at_cursor(1, text, ok)

NextAnnot ==
    \/ LoadData \/ LoadPlot \/ LoadDone \/ CloseAlert
    \/ SetConditionsAnnot \/ run_event_finder \/ AddNote
    \/ Using("threshold") /\ AddThreshold
    \/ Using("highlight") /\ toggle_highlight_mode
    \/ Using("highlight") /\ PlotClicked
    \/ Using("bookmark") /\ AddBookmark
    \/ Using("bookmark") /\ DelBookmark
    \/ Using("bookmark") /\ JumpBookmark
    \/ Using("view") /\ ItemClicked
    \/ Using("view") /\ ScaleChanged
    \/ Using("compare") /\ toggle_compare_mode
    \/ Using("compare") /\ OpenCompare

SpecAnnot == InitAnnot /\ [][NextAnnot]_vars

----------------------------------------------------------------------------
(* The marking session: thresholds, highlight regions and bookmarks *)

NextMarks ==
    \/ LoadData \/ LoadPlot \/ LoadDone
    \/ AddThreshold
    \/ toggle_highlight_mode \/ PlotClicked
    \/ AddBookmark \/ DelBookmark \/ JumpBookmark

SpecMarks == InitAnnot /\ [][NextMarks]_vars

----------------------------------------------------------------------------
(* A session with thresholds on two series. Besides the thresholds the user
   has one kind of annotation in use at a time, and touches the rules only
   between loads. *)

ThresholdFiles ==
    "data.csv" :> Table(HeaderAB, <<Row3(HeaderAB, Ts(1), Num(10), Num(1)),
                                    Row3(HeaderAB, Ts(2), Num(5), Num(2))>>)

InitThreshold ==
    /\ HAS_POLARS = FALSE
    /\ files = ThresholdFiles
    /\ InitSession

Besides ==
    (Touched \ {"threshold"})
    \cup (IF find_rules # << >> \/ event_items # << >> THEN {"events"} ELSE {})
Beside(feature) == Besides \subseteq {feature}

NextThreshold ==
    \/ LoadData \/ LoadPlot \/ LoadDone
    \/ AddThreshold
    \/ Beside("events") /\ Idle /\ SetConditionsAnnot
    \/ Beside("events") /\ Idle /\ run_event_finder
    \/ Beside("highlight") /\ toggle_highlight_mode
    \/ Beside("highlight") /\ PlotClicked
    \/ Beside("bookmark") /\ AddBookmark
    \/ Beside("view") /\ ItemClicked

SpecThreshold == InitThreshold /\ [][NextThreshold]_vars

----------------------------------------------------------------------------
(* A session with reference files: primary loads without a time range, each
   left to finish, the Compare button and Open Ref *)

InitCompare ==
    /\ HAS_POLARS \in BOOLEAN
    /\ files = SessionFiles
    /\ InitSession

NextCompare ==
    \/ LoadFull \/ LoadPlot \/ LoadDone \/ CloseAlert
    \/ toggle_compare_mode \/ OpenCompare

SpecCompare == InitCompare /\ [][NextCompare]_vars

----------------------------------------------------------------------------
(* Reference loads of generated tables: the one readable file of the session
   is loaded as the Dataset, without a time range, and as the reference *)

NextReference ==
    \/ LoadFull \/ LoadPlot \/ LoadDone \/ CloseAlert
    \/ toggle_compare_mode \/ OpenCompare

SpecReference == InitIngest /\ [][NextReference]_vars

----------------------------------------------------------------------------
(* Loads of files whose headers hold two candidate names, one, or none *)

TimeColHeaders ==
    {<<"Time", "Date UTC", "A">>, <<"when", "Time", "A">>, <<"when", "date utc", "A">>}
TimeCells == {Ts(1), Ts(2), Str}
TimeColTables ==
    {Table(h, rows) :
        h \in TimeColHeaders,
        rows \in UNION {[1..k -> {Row3(hh, a, b, Num(1)) :
                                    hh \in TimeColHeaders, a \in TimeCells, b \in TimeCells}] :
                         k \in 0..MaxRows}}

InitTimeCol ==
    /\ HAS_POLARS \in BOOLEAN
    /\ files \in {("in.csv" :> t) :
                    t \in {u \in TimeColTables :
                              \A i \in DOMAIN u.rows : DOMAIN u.rows[i] = Range(u.header)}}
    /\ InitSession

SpecTimeCol == InitTimeCol /\ [][NextFull]_vars

----------------------------------------------------------------------------
(* The time-column selector: files whose headers hold two candidate names *)

\* on_time_col_changed (940-942), called by currentTextChanged (267) when
\* the user picks another item of the selector
on_time_col_changed(new_col) ==
    /\ Running
    /\ cmb_visible
    /\ new_col \in Range(cmb_items) /\ new_col # time_col
    /\ time_col' = new_col
    /\ UNCHANGED <<HAS_POLARS, files, exported, viewport, marks, x_ns, x_sec, series_cols,
                   Y_raw, Y_norm, plotItems, seriesState, overlays, selector, alert, fault,
                   loadStack>>

TimeColChanged == \E new_col \in Range(TIME_COL_CANDIDATES) : on_time_col_changed(new_col)

SelectorHeaders == {<<"Date UTC", "Time", "A">>, <<"Time", "Date UTC", "A">>}
TablesOf(h) ==
    {Table(h, rows) :
        rows \in UNION {[1..k -> {Row3(h, a, b, Num(1)) : a \in TimeCells, b \in TimeCells}] :
                         k \in 0..MaxRows}}
SelectorTables == UNION {TablesOf(h) : h \in SelectorHeaders}

InitSelector ==
    /\ HAS_POLARS \in BOOLEAN
    /\ files \in {("in.csv" :> t) : t \in SelectorTables}
    /\ InitSession

\* The user lets a load finish before picking a column
TimeColChangedIdle == Idle /\ TimeColChanged

NextSelector == LoadFull \/ LoadPlot \/ LoadDone \/ CloseAlert \/ TimeColChangedIdle

SpecSelector == InitSelector /\ [][NextSelector]_vars

----------------------------------------------------------------------------
(* The viewing session: loads without a time range, activation toggles,
   scale changes, the fit shortcut and the jump to a range *)

ViewFiles ==
    ("data.csv" :> Table(HeaderAB, <<Row3(HeaderAB, Ts(1), Num(1), Num(2)),
                                     Row3(HeaderAB, Ts(2), Num(3), NaN),
                                     Row3(HeaderAB, Ts(3), Num(100), Num(5))>>))
    @@ ("void.csv" :> Table(HeaderAB, <<Row3(HeaderAB, Ts(1), NaN, NaN)>>))

InitView ==
    /\ HAS_POLARS = FALSE
    /\ files = ViewFiles
    /\ InitSession

\* The shortcut F (line 389) runs _fit_view
fit_view ==
    /\ Running
    /\ Fit(viewRange, x_sec, curves, current_mode)
    /\ UNCHANGED <<HAS_POLARS, files, exported, marks, dataset, plotItems, seriesState, overlays,
                   selector, alert, fault, loadStack>>

\* np.clip(v, lo, hi)
Clip(v, lo, hi) == IF v < lo THEN lo ELSE IF v > hi THEN hi ELSE v

\* Lines 933-938 of go_to_range: the X range asked for, in seconds
JumpRange(s, e, xs) ==
    LET xmin == MinOf(Range(xs))
        xmax == MaxOf(Range(xs))
        s_sec == Clip(s, xmin, xmax)
        e_sec == Clip(e, xmin, xmax)
    IN <<s_sec, IF e_sec <= s_sec
                THEN (IF xmax < s_sec + 1 THEN xmax ELSE s_sec + 1)
                ELSE e_sec>>

\* The range check of lines 930-932 left out
go_to_range_unchecked(s, e) ==
    /\ Running
    /\ jump_enabled
    /\ x_sec # None /\ x_ns # None
    /\ IF x_sec[1] = << >>
       THEN /\ fault' = "ValueError"
            /\ UNCHANGED <<viewRange, alert>>
       ELSE LET r == JumpRange(s, e, x_sec[1])
                xr == SetAxis(r[1] * VIEW_UNIT, r[2] * VIEW_UNIT)
            IN /\ viewRange' = [viewRange EXCEPT !.x0 = xr[1], !.x1 = xr[2]]
               /\ UNCHANGED <<alert, fault>>
    /\ UNCHANGED <<HAS_POLARS, files, exported, marks, dataset, plotItems, seriesState, overlays,
                   selector, jump_enabled, blind_fits, loadStack>>

\* go_to_range (926-938): the Go button, which _enable_jump_controls has
\* enabled, with the start s and the end e standing in dt_start and dt_end.
\* np.nanmin raises ValueError on a Dataset without rows.
go_to_range(s, e) ==
    /\ Running
    /\ jump_enabled
    /\ x_sec # None /\ x_ns # None
    /\ IF s >= e
       THEN /\ alert' = Some(<<"Range Error", "Start must be earlier than End.">>)
            /\ UNCHANGED <<viewRange, fault>>
       ELSE IF x_sec[1] = << >>
       THEN /\ fault' = "ValueError"
            /\ UNCHANGED <<viewRange, alert>>
       ELSE LET r == JumpRange(s, e, x_sec[1])
                xr == SetAxis(r[1] * VIEW_UNIT, r[2] * VIEW_UNIT)
            IN /\ viewRange' = [viewRange EXCEPT !.x0 = xr[1], !.x1 = xr[2]]
               /\ UNCHANGED <<alert, fault>>
    /\ UNCHANGED <<HAS_POLARS, files, exported, marks, dataset, plotItems, seriesState, overlays,
                   selector, jump_enabled, blind_fits, loadStack>>

\* export_visible_csv (872-890).  saved tells how the save dialog and the
\* write end: "none" when the dialog is cancelled, "ok", or "failed" when
\* to_csv raises.  self.Y_raw[c] raises KeyError for an active name that is
\* no series of the Dataset.
VisibleRows == {i \in DOMAIN x_sec[1] : /\ x_sec[1][i] * VIEW_UNIT >= viewRange.x0
                                        /\ x_sec[1][i] * VIEW_UNIT <= viewRange.x1}
ActiveCols == {c \in DOMAIN active_for : active_for[c]}
RECURSIVE RowsIn(_, _)
RowsIn(k, cols) ==
    IF k = 0 THEN << >>
    ELSE RowsIn(k - 1, cols)
         \o (IF k \in VisibleRows
             THEN <<[t |-> x_sec[1][k], vals |-> [c \in cols |-> Y_raw[c][k]]]>>
             ELSE << >>)
SaveResults == {"none", "ok", "failed"}
export_visible_csv(saved) ==
    /\ Running
    /\ IF x_sec = None \/ x_sec[1] = << >>
       THEN UNCHANGED <<exported, alert, fault>>
       ELSE IF VisibleRows = {}
       THEN /\ alert' = Some(<<"Export CSV", "No points in current visible X range.">>)
            /\ UNCHANGED <<exported, fault>>
       ELSE IF ActiveCols = {}
       THEN /\ alert' = Some(<<"Export CSV", "No active series selected.">>)
            /\ UNCHANGED <<exported, fault>>
       ELSE IF ~(ActiveCols \subseteq DOMAIN Y_raw)
       THEN /\ fault' = "KeyError"
            /\ UNCHANGED <<exported, alert>>
       ELSE /\ exported' = IF saved = "ok"
                           THEN Some([cols |-> ActiveCols,
                                      rows |-> RowsIn(Len(x_sec[1]), ActiveCols)])
                           ELSE exported
            /\ alert' = IF saved = "failed"
                        THEN Some(<<"Export CSV Error", "">>) ELSE alert
            /\ UNCHANGED fault
    /\ UNCHANGED <<HAS_POLARS, files, marks, dataset, plotItems, seriesState, overlays,
                   selector, viewport, loadStack>>

ExportVisible == \E saved \in SaveResults : export_visible_csv(saved)

\* The instants the user enters, in seconds
JumpTimes == {0, 2, 3, 8, 9}
GoToRange == \E s \in JumpTimes, e \in JumpTimes : go_to_range(s, e)

NextView ==
    \/ LoadFull \/ LoadPlot \/ LoadDone \/ CloseAlert
    \/ ItemClicked \/ ScaleChanged \/ fit_view
    \/ GoToRange

SpecView == InitView /\ [][NextView]_vars

----------------------------------------------------------------------------
(* The exporting session: two files with different series, activation
   toggles, the jump to a range and the CSV export *)

ExportFiles ==
    ("data.csv" :> ViewFiles["data.csv"]) @@ ("b.csv" :> SessionFiles["b.csv"])

InitExport ==
    /\ HAS_POLARS = FALSE
    /\ files = ExportFiles
    /\ InitSession

NextExport ==
    \/ LoadFull \/ LoadPlot \/ LoadDone \/ CloseAlert
    \/ ItemClicked \/ GoToRange \/ ExportVisible

SpecExport == InitExport /\ [][NextExport]_vars

----------------------------------------------------------------------------
(* CenteredViewBox: the wheel zooms about the point under the cursor *)

\* A factor is the fraction n / d: s = 0.9 if d > 0 else 1.111111 (line 120),
\* and the 1.0 of the axis a modifier key holds still (124, 126)
ZOOM_IN == [n |-> 9, d |-> 10]
ZOOM_OUT == [n |-> 1111111, d |-> 1000000]
ZOOM_NONE == [n |-> 1, d |-> 1]

\* dist * s, for a distance the factor scales to a whole number of units
Exact(dist, s) == dist % s.d = 0
Scaled(dist, s) == (dist \div s.d) * s.n

\* self.view.setLimits(minXRange=1.0, minYRange=1e-6) (line 418), in units;
\* 1e-6 is below one unit, the least span two coordinates can have
MIN_X_RANGE == 10000
MIN_Y_RANGE == 1

\* setRange on one axis with padding=0.0: a span below the least span of
\* the axis is widened to it about its centre
Limited(lo, hi, minRng) ==
    IF hi - lo < minRng
    THEN <<lo - (minRng - (hi - lo)) \div 2, hi + (minRng - (hi - lo)) \div 2>>
    ELSE <<lo, hi>>

\* A zoom about the centre of the view instead of the anchor
zoom_about_centre(view, ax, ay, sx, sy) ==
    LET cx == (view.x0 + view.x1) \div 2
        cy == (view.y0 + view.y1) \div 2
        xr == Limited(cx - Scaled(cx - view.x0, sx), cx + Scaled(view.x1 - cx, sx), MIN_X_RANGE)
        yr == Limited(cy - Scaled(cy - view.y0, sy), cy + Scaled(view.y1 - cy, sy), MIN_Y_RANGE)
    IN Rect(xr[1], xr[2], yr[1], yr[2])

\* _zoom_around (131-137): the view it leaves
zoom_around(view, ax, ay, sx, sy) ==
    LET xr == Limited(ax - Scaled(ax - view.x0, sx), ax + Scaled(view.x1 - ax, sx), MIN_X_RANGE)
        yr == Limited(ay - Scaled(ay - view.y0, sy), ay + Scaled(view.y1 - ay, sy), MIN_Y_RANGE)
    IN Rect(xr[1], xr[2], yr[1], yr[2])

\* The factors of a wheel event (120-128): Ctrl zooms Y only, else Shift
\* zooms X only, else both
WheelFactor(d) == IF d > 0 THEN ZOOM_IN ELSE ZOOM_OUT
FactorX(d, mods) == IF "ctrl" \in mods THEN ZOOM_NONE ELSE WheelFactor(d)
FactorY(d, mods) == IF "ctrl" \in mods THEN WheelFactor(d)
                    ELSE IF "shift" \in mods THEN ZOOM_NONE ELSE WheelFactor(d)

\* wheelEvent (97-129): the view it leaves
WheelView(view, d, ax, ay, mods) ==
    IF d = 0 THEN view
    ELSE zoom_around(view, ax, ay, FactorX(d, mods), FactorY(d, mods))

\* The wheel events taken up: the cursor is over the view, and the
\* distances and the widening are whole numbers of units
ExactAxis(lo, hi, a, s, minRng) ==
    /\ lo <= a /\ a <= hi
    /\ Exact(a - lo, s) /\ Exact(hi - a, s)
    /\ Scaled(hi - lo, s) < minRng => (minRng - Scaled(hi - lo, s)) % 2 = 0
WheelInput(view, d, ax, ay, mods) ==
    \/ d = 0 /\ view.x0 <= ax /\ ax <= view.x1 /\ view.y0 <= ay /\ ay <= view.y1
    \/ /\ d # 0
       /\ ExactAxis(view.x0, view.x1, ax, FactorX(d, mods), MIN_X_RANGE)
       /\ ExactAxis(view.y0, view.y1, ay, FactorY(d, mods), MIN_Y_RANGE)

wheelEvent(d, ax, ay, mods) ==
    /\ Running
    /\ WheelInput(viewRange, d, ax, ay, mods)
    /\ viewRange' = WheelView(viewRange, d, ax, ay, mods)
    /\ UNCHANGED <<HAS_POLARS, files, exported, jump_enabled, blind_fits, marks, dataset,
                   plotItems, seriesState, overlays, selector, alert, fault, loadStack>>

\* The file of the zooming session: the view a load leaves spans 16900 s
\* and 16900 units of value
ZoomTable ==
    Table(HeaderA2, <<Row2(Ts(0), Num(0)), Row2(Ts(15625), Num(15625))>>)

\* angleDelta().y() of a notch of the wheel, the keys held, and where the
\* cursor is, in units
WheelDeltas == {-120, 0, 120}
WheelMods == {{}, {"ctrl"}, {"shift"}, {"ctrl", "shift"}}
AnchorsX == {2000, 3625000}
AnchorsY == {5000, 3625000}
Wheel ==
    \E d \in WheelDeltas, ax \in AnchorsX, ay \in AnchorsY, mods \in WheelMods :
        wheelEvent(d, ax, ay, mods)

InitZoom ==
    /\ HAS_POLARS = FALSE
    /\ files = ("data.csv" :> ZoomTable)
    /\ InitSession

\* The user lets a load finish before turning the wheel
WheelIdle == Idle /\ Wheel

NextZoom == LoadData \/ LoadPlot \/ LoadDone \/ WheelIdle

SpecZoom == InitZoom /\ [][NextZoom]_vars

----------------------------------------------------------------------------
(* Hover and click readout: the row nearest to the cursor *)

\* int(np.abs(self.x_sec - x).argmin()) (795, 814) for a cursor at x units
\* over a time axis that has rows: the first row of the least distance
NearestIndex(xs, x) ==
    MinOf({i \in DOMAIN xs :
              \A j \in DOMAIN xs : Abs(xs[i] * VIEW_UNIT - x) <= Abs(xs[j] * VIEW_UNIT - x)})

\* on_mouse_moved (791-804) for a cursor inside the plot, at x units:
\* argmin of an empty array raises ValueError (795); the cursor line moves
\* to the row (797); self.Y_raw[c] raises KeyError for an active name that
\* is no series of the Dataset (802)
on_mouse_moved(x) ==
    /\ Running
    /\ x_sec # None /\ x_ns # None
    /\ IF x_sec[1] = << >>
       THEN /\ fault' = "ValueError"
            /\ UNCHANGED vline
       ELSE /\ vline' = x_sec[1][NearestIndex(x_sec[1], x)]
            /\ fault' = IF \E c \in DOMAIN active_for : active_for[c] /\ c \notin DOMAIN Y_raw
                        THEN "KeyError" ELSE fault
    /\ UNCHANGED <<HAS_POLARS, files, exported, viewport, highlight_mode, highlight_first_ns,
                   bookmarks, list_bm, compare_mode, dataset, plotItems, seriesState, overlays,
                   selector, alert, loadStack>>

\* on_plot_clicked for a left click inside the plot, at x units
on_plot_clicked_at(x, text, ok) ==
    on_plot_clicked(IF x_sec = None \/ x_sec[1] = << >> THEN 1
                    ELSE NearestIndex(x_sec[1], x), text, ok)

\* Where the cursor is, in units: before the rows, midway between two
\* rows, on a row, nearer to the later of two rows, after the rows
CursorXs == {5000, 15000, 20000, 26000, 40000}
MouseMoved == \E x \in CursorXs : on_mouse_moved(x)
PlotClickedAt == \E x \in CursorXs : on_plot_clicked_at(x, << >>, FALSE)

InitHover ==
    /\ HAS_POLARS = FALSE
    /\ files = ViewFiles
    /\ InitSession

NextHover ==
    \/ LoadFull \/ LoadPlot \/ LoadDone \/ CloseAlert
    \/ ItemClicked \/ MouseMoved \/ PlotClickedAt

SpecHover == InitHover /\ [][NextHover]_vars

----------------------------------------------------------------------------
(* A highlighting session over two files of different instants; the user
   lets a load finish before touching the plot *)

AnchorFiles ==
    ("old.csv" :> Table(HeaderA2, <<Row2(Ts(1), Num(10)), Row2(Ts(2), Num(5))>>))
    @@ ("new.csv" :> Table(HeaderA2, <<Row2(Ts(5), Num(7)), Row2(Ts(6), Num(3))>>))

InitAnchor ==
    /\ HAS_POLARS = FALSE
    /\ files = AnchorFiles
    /\ InitSession

ToggleHighlightIdle == Idle /\ toggle_highlight_mode
PlotClickedIdle == Idle /\ PlotClicked

NextAnchor ==
    \/ LoadFull \/ LoadPlot \/ LoadDone \/ CloseAlert
    \/ ToggleHighlightIdle \/ PlotClickedIdle

SpecAnchor == InitAnchor /\ [][NextAnchor]_vars

----------------------------------------------------------------------------
(* A session over two files of different series in which the context menu
   of the series list sets rules and adds thresholds, at any moment a
   handler can run *)

KeyRules == {Rule({"gt"}, RuleValues), Rule({}, RuleValues)}
SetConditionsKeys ==
    \E col \in Range(list_series), rules \in KeyRules : set_conditions(col, rules)
AddThresholdKeys == \E col \in Range(list_series) : add_threshold_line(col, 0)

NextKeys ==
    \/ LoadFull \/ LoadPlot \/ LoadDone \/ CloseAlert
    \/ SetConditionsKeys \/ AddThresholdKeys

SpecKeys == InitExport /\ [][NextKeys]_vars

----------------------------------------------------------------------------
(* A bookmarking session: loads that succeed and loads that fail, bookmarks
   added, deleted and jumped to at any moment a handler can run *)

NextBookmarks ==
    \/ LoadFull \/ LoadPlot \/ LoadDone \/ CloseAlert
    \/ AddBookmark \/ DelBookmark \/ JumpBookmark

BookmarkFiles == AnchorFiles @@ ("empty.csv" :> Garbled)

InitBookmarks ==
    /\ HAS_POLARS = FALSE
    /\ files = BookmarkFiles
    /\ InitSession

SpecBookmarks == InitBookmarks /\ [][NextBookmarks]_vars

----------------------------------------------------------------------------
(* A scanning session in which the user also switches series on and off,
   toggles their downsampling and changes the scale *)

StateRules == {Rule({"gt"}, RuleValues), Rule({"lt"}, RuleValues), Rule({}, RuleValues)}
SetConditionsState ==
    Idle /\ \E col \in Range(list_series), rules \in StateRules : set_conditions(col, rules)

NextState ==
    \/ LoadData \/ LoadPlot \/ LoadDone
    \/ SetConditionsState \/ ScanIdle
    \/ ItemClicked \/ ToggleDsSeries \/ ScaleChanged

SpecState == InitThreshold /\ [][NextState]_vars

----------------------------------------------------------------------------
(* The interactive session *)

Next ==
    \/ Load \/ LoadPlot \/ LoadDone \/ CloseAlert
    \/ ItemClicked \/ select_all_on \/ select_all_off \/ select_invert
    \/ show_first_only
    \/ ToggleDsSeries \/ toggle_ds_global
    \/ ScaleChanged

Spec == Init /\ [][Next]_vars

----------------------------------------------------------------------------
(* Claims about a failed load and about the reload checkpoints *)

\* A load attempt that fails: load_and_plot ends in a message box
LoadFails ==
    /\ alert = None /\ alert' # None
    /\ \E path \in DOMAIN files \cup {""}, rng \in SessionRanges : LoadRead(path, rng, MaxNest)

\* C1: a failed load attempt leaves every session field as it was: the time
\* column name, the time axis, the series, the normalised series, the active
\* and downsampling state, the rules, the event log, the thresholds, the
\* highlight regions and the comparison data.
C1_FailedLoadKeepsSession ==
    [][LoadFails =>
         UNCHANGED <<time_col, x_ns, x_sec, series_cols, Y_raw, Y_norm,
                     active_for, ds_for, ds_default, find_rules, event_items,
                     thresholds, highlight_regions, compare_data, curves_ref>>]_vars

\* A load is at the processEvents between _read_and_prepare and _plot_all
AtReadCheckpoint == loadStack # << >> /\ Top = "read"

\* C2: at the checkpoint between reading the file and rebuilding the curves,
\* the series names of the Dataset, the keys of the active-state map and the
\* keys of the curve map are one and the same set.
C2_ReloadAtomicForHandlers ==
    AtReadCheckpoint =>
        /\ DOMAIN active_for = Range(series_cols)
        /\ DOMAIN curves = Range(series_cols)

\* C3: in every reachable state every key of the active-state map and of the
\* downsampling map is the name of a series of the current Dataset.
C3_StateKeysAreSeries ==
    /\ DOMAIN active_for \subseteq Range(series_cols)
    /\ DOMAIN ds_for \subseteq Range(series_cols)

\* The default activation, stated without the sort: a series is active iff
\* fewer than INIT_SHOW_N series come before it, where a comes before b when
\* its score is larger, or equal with a earlier in column order.
ComesBefore(sc, a, b) ==
    \/ ScoreGT(sc[a], sc[b])
    \/ (~ScoreGT(sc[b], sc[a]) /\ IndexOf(series_cols, a) < IndexOf(series_cols, b))

RankOf(sc, c) == Cardinality({b \in Range(series_cols) : b # c /\ ComesBefore(sc, b, c)})

DefaultSeriesState ==
    LET sc == [c \in Range(series_cols) |-> Score(Y_raw[c])]
    IN \A c \in Range(series_cols) :
        /\ c \in DOMAIN active_for /\ active_for[c] = (RankOf(sc, c) < INIT_SHOW_N)
        /\ c \in DOMAIN ds_for /\ ds_for[c] = ds_default
        /\ c \in DOMAIN curves /\ curves[c].ds = ds_default
        /\ c \in DOMAIN pen_active_cache
        /\ pen_active_cache[c] = AutoPen(RankOf(sc, c), Len(series_cols))

\* C4: after every successful reload each series has the default activation,
\* the current global downsampling default and the freshly assigned style.
C4_ReloadResetsSeriesState == [][LoadPlot => DefaultSeriesState']_vars

\* C10: after a global downsampling toggle the flag of every series of the
\* Dataset equals the new global default; a per-series toggle changes that
\* series' flag only, and not the global default.
C10_GlobalToggleOverwritesAll ==
    [][/\ toggle_ds_global =>
            (\A c \in Range(series_cols) : c \in DOMAIN ds_for /\ ds_for[c] = ds_default)'
       /\ \A col \in Range(list_series) :
            toggle_ds_series(col) =>
              /\ ds_default' = ds_default
              /\ ds_for'[col] = ~Get(ds_for, col, ds_default)
              /\ \A c \in DOMAIN ds_for \ {col} : ds_for'[c] = ds_for[c]
              /\ DOMAIN ds_for' = DOMAIN ds_for \cup {col}]_vars

----------------------------------------------------------------------------
(* Claims about ingestion *)

Loaded == x_ns # None
Series == Range(series_cols)

\* C5: whatever loads succeeded or failed, every raw and every normalised
\* array of the Dataset is as long as time_ns and time_sec, and time_ns is
\* non-decreasing.
C5_ArraysAlignedTimeSorted ==
    Loaded =>
        /\ Len(x_sec[1]) = Len(x_ns[1])
        /\ DOMAIN Y_raw = Series /\ DOMAIN Y_norm = Series
        /\ \A c \in Series : Len(Y_raw[c]) = Len(x_ns[1]) /\ Len(Y_norm[c]) = Len(x_ns[1])
        /\ \A i, j \in DOMAIN x_ns[1] : i < j => x_ns[1][i] <= x_ns[1][j]

\* Two rows of decreasing time were loaded, after a load that failed
C5_Witness ==
    /\ Loaded /\ alert # None
    /\ x_ns[1] = <<1, 2>>
    /\ files["in.csv"].rows[1]["Date UTC"] = Ts(2)
    /\ files["in.csv"].rows[2]["Date UTC"] = Ts(1)

\* The rows of a Dataset (time axes xs and xsec, arrays Yr of the series
\* cols) and the rows of the table that should be kept, each as a record of
\* its time and its value in every series
DatasetRow(xs, xsec, Yr, cols, j) ==
    [ns |-> xs[j], sec |-> xsec[j], val |-> [c \in cols |-> Yr[c][j]]]

TableRow(tbl, cols, i) ==
    LET t == ParseTime(tbl.rows[i][DetectTimeCol(tbl.header)])
    IN [ns |-> t[1], sec |-> t[1], val |-> [c \in cols |-> tbl.rows[i][c]]]

KeptRows(tbl, rng, cols) ==
    {i \in DOMAIN tbl.rows :
        /\ ParseTime(tbl.rows[i][DetectTimeCol(tbl.header)]) # None
        /\ rng # None =>
             LET t == ParseTime(tbl.rows[i][DetectTimeCol(tbl.header)])[1]
             IN rng[1] <= t /\ t <= rng[2]
        /\ \E c \in cols : tbl.rows[i][c].k = "num"}

\* The Dataset holds each kept row of the table as often as the table does
RowsAreKeptRows(tbl, rng, xs, xsec, Yr, cols) ==
    LET kept == KeptRows(tbl, rng, cols)
        want == [i \in kept |-> TableRow(tbl, cols, i)]
        have == [j \in DOMAIN xs |-> DatasetRow(xs, xsec, Yr, cols, j)]
    IN /\ Len(xs) = Cardinality(kept)
       /\ Len(xsec) = Len(xs)
       /\ \A i \in kept :
            Cardinality({j \in DOMAIN xs : have[j] = want[i]})
              = Cardinality({k \in kept : want[k] = want[i]})

\* C6: the rows of a loaded Dataset are exactly the rows of the table with a
\* parseable time, inside the time range if one is given, and with a finite
\* value in some series; each keeps its own time and its own values.
C6_RowsAreValidInputRows ==
    [][\A path \in DOMAIN files, rng \in Ranges :
          (Len(loadStack') > Len(loadStack) /\ files[path].readable
             /\ LoadRead(path, rng, 1))
            => RowsAreKeptRows(files[path], rng, x_ns'[1], x_sec'[1], Y_raw',
                               Range(series_cols'))]_vars

\* One of two rows was dropped for having no finite value, the other kept
C6_Witness ==
    /\ Loaded /\ x_ns[1] = <<2>>
    /\ Len(files["in.csv"].rows) = 2
    /\ files["in.csv"].rows[1] = Row3(HeaderAB, Ts(1), NaN, Inf)
    /\ files["in.csv"].rows[2] = Row3(HeaderAB, Ts(2), Num(1), Inf)

\* No column of the table besides the time column holds numbers only
NoNumericColumn(tbl) ==
    /\ tbl.exists /\ tbl.readable
    /\ \A c \in Range(tbl.header) \ {DetectTimeCol(tbl.header)} :
         tbl.rows = << >> \/ \E i \in DOMAIN tbl.rows : tbl.rows[i][c].k = "str"

\* C7: loading a file with no numeric column besides the time column fails
\* with the no-numeric-series error, and a loaded Dataset has a series.
C7_NoNumericSeriesFails ==
    [][/\ \A path \in DOMAIN files, rng \in Ranges :
            (NoNumericColumn(files[path]) /\ LoadRead(path, rng, 1))
              => /\ alert' = Some(<<"Load Error", MSG_NO_NUMERIC>>)
                 /\ UNCHANGED <<x_ns, series_cols, loadStack>>
       /\ Loaded' => series_cols' # << >>]_vars

\* min and max of the finite values of an array, and whether it has any
FiniteOf(y) == {y[i].v : i \in {j \in DOMAIN y : y[j].k = "num"}}
AllFiniteOrMissing(y) == \A i \in DOMAIN y : y[i].k \in {"num", "nan"}

\* C8: for a series of the Dataset with finite min and max, max > min, every
\* normalised value at a finite position is in [0,1], 0 at the min, 1 at the
\* max, and norm * (max - min) + min is the raw value; for a series with
\* max = min or no finite value, the normalised array is zero everywhere.
C8_NormalizedInUnitRange ==
    Loaded =>
      \A c \in Series :
        LET y == Y_raw[c]
            nm == Y_norm[c]
            fin == FiniteOf(y)
        IN IF fin # {} /\ AllFiniteOrMissing(y) /\ MaxOf(fin) > MinOf(fin)
           THEN \A i \in DOMAIN y :
                  y[i].k = "num" =>
                    /\ nm[i].k = "num" /\ nm[i].d > 0
                    /\ 0 <= nm[i].n /\ nm[i].n <= nm[i].d
                    /\ y[i].v = MinOf(fin) => nm[i].n = 0
                    /\ y[i].v = MaxOf(fin) => nm[i].n = nm[i].d
                    /\ nm[i].n * (MaxOf(fin) - MinOf(fin)) + MinOf(fin) * nm[i].d
                         = y[i].v * nm[i].d
           ELSE (fin = {} \/ (AllFiniteOrMissing(y) /\ MaxOf(fin) = MinOf(fin)))
                  => \A i \in DOMAIN y : nm[i].k = "num" /\ nm[i].n = 0

\* C9: right after a successful load the active series are the first
\* min(6, n) in descending score order, equal scores in column order, a
\* series without finite value last; every other series is inactive.
C9_DefaultActiveTopSix ==
    (Loaded /\ (loadStack = << >> \/ Top = "plotted")) =>
        LET sc == [c \in Series |-> Score(Y_raw[c])]
        IN /\ DOMAIN active_for = Series
           /\ \A c \in Series : active_for[c] = (RankOf(sc, c) < INIT_SHOW_N)
           /\ Cardinality({c \in Series : active_for[c]})
                = IF Len(series_cols) < INIT_SHOW_N THEN Len(series_cols) ELSE INIT_SHOW_N

\* Seven series are loaded and the sixth and the seventh in order tie
C9_Witness ==
    /\ Loaded /\ loadStack = <<"plotted">>
    /\ Len(series_cols) = 7
    /\ \E a, b \in Series :
         /\ active_for[a] /\ ~active_for[b]
         /\ ~ScoreGT(Score(Y_raw[a]), Score(Y_raw[b]))
         /\ ~ScoreGT(Score(Y_raw[b]), Score(Y_raw[a]))
    /\ \E a, b \in Series : ScoreGT(Score(Y_raw[a]), Score(Y_raw[b]))

----------------------------------------------------------------------------
(* Claims about the rule scan *)

\* The deltapct sub-rule in exact arithmetic: the sample has a non-zero
\* predecessor and |cur - prev| * 100 >= p * |prev|
DeltaHolds(p, prev, cur) == prev # 0 /\ Abs(cur - prev) * 100 >= p * Abs(prev)

\* The sub-rules of rules that are satisfied at finite sample i, in the
\* order gt, lt, deltapct
SatisfiedRules(rules, yy, i) ==
    (IF "gt" \in DOMAIN rules /\ yy[i] > rules["gt"] THEN <<">">> ELSE << >>)
    \o (IF "lt" \in DOMAIN rules /\ yy[i] < rules["lt"] THEN <<"<">> ELSE << >>)
    \o (IF "deltapct" \in DOMAIN rules /\ i > 1
           /\ DeltaHolds(rules["deltapct"], yy[i - 1], yy[i])
        THEN <<"d">> ELSE << >>)

\* The Hits a series owes: one at each finite row with a satisfied sub-rule
OwedSeriesHits(col, rules, xs, y) ==
    LET valid == [i \in DOMAIN y |-> isfinite(y[i])]
        xv    == Masked(xs, valid)
        yv    == Masked(y, valid)
        yy    == [i \in DOMAIN xv |-> yv[i].v]
        sat   == [i \in DOMAIN yy |-> SatisfiedRules(rules, yy, i)]
    IN Masked([i \in DOMAIN yy |-> [x_ns |-> xv[i], col |-> col, ops |-> sat[i]]],
              [i \in DOMAIN yy |-> sat[i] # << >>])

RECURSIVE OwedHits(_, _, _)
OwedHits(od, xs, Yr) ==
    IF od = << >> THEN << >>
    ELSE OwedSeriesHits(Head(od).col, Head(od).rules, xs, Yr[Head(od).col])
         \o OwedHits(Tail(od), xs, Yr)

\* An entry of the event log read as a Hit: its time, and the series and the
\* sub-rules its label names
HitRead(en) ==
    [x_ns |-> en.x_ns, col |-> en.text[1].col,
     ops |-> [j \in DOMAIN en.text |-> en.text[j].op]]
HitsRead(H) == [i \in DOMAIN H |-> HitRead(H[i])]

\* A Dataset is loaded, no load is in progress, and every rule is on a series
Scannable ==
    /\ Idle /\ Running /\ x_sec # None
    /\ OrderedKeys(find_rules) \subseteq DOMAIN Y_raw

\* C11: whatever the number of rows of the loaded Dataset, the Hits a scan
\* emits are, series by series in rule order, exactly the finite rows at
\* which a sub-rule is satisfied, each labelled with exactly the satisfied
\* sub-rules in the order gt, lt, deltapct.
C11_ScanHitsAreSatisfiedRows ==
    Scannable =>
        HitsRead(ScanHits(find_rules, x_ns[1], Y_raw))
            = OwedHits(find_rules, x_ns[1], Y_raw)

\* The times and the values of the finite samples of a series
FiniteTimes(xs, y) == Masked(xs, [i \in DOMAIN y |-> isfinite(y[i])])
FiniteValues(y) ==
    LET yv == Masked(y, [i \in DOMAIN y |-> isfinite(y[i])])
    IN [i \in DOMAIN yv |-> yv[i].v]

\* The scan of one series puts a Hit whose label names deltapct at time t
DeltaHitAt(col, rules, xs, y, t) ==
    \E h \in Range(HitsRead(SeriesHits(col, rules, xs, y))) :
        h.x_ns = t /\ "d" \in Range(h.ops)

\* C12: for every series with a deltapct rule of threshold p, the scan
\* reports deltapct at finite sample i exactly when the sample has a
\* predecessor, the predecessor is not zero and
\* |y[i] - y[i-1]| * 100 >= p * |y[i-1]|.
C12_DeltaFiresOnExactChange ==
    Scannable =>
        \A k \in DOMAIN find_rules :
            LET col   == find_rules[k].col
                rules == find_rules[k].rules
                xv    == FiniteTimes(x_ns[1], Y_raw[col])
                yy    == FiniteValues(Y_raw[col])
            IN "deltapct" \in DOMAIN rules =>
                 \A i \in DOMAIN yy :
                     DeltaHitAt(col, rules, x_ns[1], Y_raw[col], xv[i])
                         <=> (i > 1 /\ DeltaHolds(rules["deltapct"], yy[i - 1], yy[i]))

\* A step that puts entries on the event log while no load starts or ends
LogGrows == event_items' # event_items /\ loadStack' = loadStack

----------------------------------------------------------------------------
(* Claims about the event log *)

IsPrefix(a, b) == Len(a) <= Len(b) /\ SubSeq(b, 1, Len(a)) = a

\* _read_and_prepare has succeeded: a load passes its first checkpoint
ReloadReads == Len(loadStack') > Len(loadStack)

\* C14: in every step that is not the successful read of a reload (notes,
\* scans, thresholds, highlight gestures, bookmark operations, activation
\* toggles, scale changes, compare operations, failed loads, the later
\* stages of a load), the event log before the step is a prefix of the event
\* log after it.
C14_LogOnlyAppends ==
    [][~ReloadReads => IsPrefix(event_items, event_items')]_vars

\* A log of notes and Hits, with another feature in use
C14_Witness ==
    /\ Len(event_items) >= 3
    /\ \E i, j \in DOMAIN event_items : event_items[i].x_ns # event_items[j].x_ns
    /\ Touched # {}

\* A step of run_event_finder that logged hits: the list of the side panel
\* gets every hit twice (1010-1011 and 1040-1041), a note only once
ScanAppended ==
    /\ Len(event_items') > Len(event_items)
    /\ Len(list_events') - Len(list_events)
           = 2 * (Len(event_items') - Len(event_items))
Appended == (Len(event_items) + 1)..Len(event_items')

\* C15: every entry of the event log records its origin, and the origin can
\* be read back from the log: an entry appended by the scan carries the name
\* of the series whose rule matched, an entry appended by add-note carries
\* none.  (The log keeps 'series': None for both, so a note "A>" at the
\* instant of a hit is the same entry as the hit.)
C15_OriginReadBack ==
    [][ScanAppended => \A i \in Appended : event_items'[i].series # None]_vars

\* A step that commits a highlight region
RegionCommitted == Len(highlight_regions') > Len(highlight_regions)
StartsBeforeEnd(r) == r.s_ns <= r.e_ns

\* C16: a region committed by a click at instant b, the anchor being the
\* first click a, starts at min(a, b), ends at max(a, b) and has the
\* non-empty label of the prompt; every region of the list has
\* start <= end in every reachable state.
C16_RegionIsMinMax ==
    /\ [](\A i \in DOMAIN highlight_regions : StartsBeforeEnd(highlight_regions[i]))
    /\ [][RegionCommitted =>
            /\ highlight_mode /\ highlight_first_ns # None
            /\ \E b \in Range(x_ns[1]), text \in LabelTexts \ {<< >>} :
                 LET a == highlight_first_ns[1]
                 IN highlight_regions' =
                      Append(highlight_regions,
                             [s_ns |-> IF a <= b THEN a ELSE b,
                              e_ns |-> IF a <= b THEN b ELSE a,
                              text |-> text])]_vars
\* Two regions, one over two instants and one of a single instant
C16_Witness ==
    /\ Len(highlight_regions) = 2
    /\ highlight_regions[1].s_ns < highlight_regions[1].e_ns
    /\ highlight_regions[2].s_ns = highlight_regions[2].e_ns
    /\ highlight_regions[2].text # << >>

\* The second click of a highlight gesture: the mode is armed and the anchor
\* is recorded
SecondClick(idx, text, ok) ==
    /\ highlight_mode /\ highlight_first_ns # None
    /\ on_plot_clicked(idx, text, ok)
    /\ fault' = fault

\* C17: after the second click of a highlight gesture, whatever the label
\* prompt returns, the mode is disarmed and the anchor is cleared; a region
\* is appended exactly when the label was accepted and non-empty, and in the
\* other two cases the region list is unchanged.
C17_SecondClickDisarms ==
    [][\A idx \in 1..MaxRows, text \in LabelTexts, ok \in BOOLEAN :
         SecondClick(idx, text, ok) =>
            /\ ~highlight_mode' /\ highlight_first_ns' = None
            /\ IF ok /\ text # << >>
               THEN /\ Len(highlight_regions') = Len(highlight_regions) + 1
                    /\ IsPrefix(highlight_regions, highlight_regions')
               ELSE highlight_regions' = highlight_regions]_vars
\* Disarmed with one region committed and a later gesture given up: the
\* prompt was left empty or cancelled, or the mode was switched off
C17_Witness ==
    /\ ~highlight_mode /\ highlight_first_ns = None
    /\ Len(highlight_regions) = 1
    /\ thresholds # EmptyDict

\* The three states of the highlight mode
HlState ==
    IF ~highlight_mode THEN "idle"
    ELSE IF highlight_first_ns = None THEN "first" ELSE "second"
\* arm, first click, second click, disarm
HlTransitions ==
    {<<"idle", "first">>, <<"first", "second">>, <<"second", "idle">>,
     <<"first", "idle">>}

\* C18: the highlight mode moves only by arm (idle to waiting for the first
\* click), first plot click (to waiting for the second, recording the
\* anchor), second plot click (to idle) and disarm (to idle, clearing the
\* anchor).  An anchor is recorded only while the mode is armed; a plot
\* click in idle records no anchor and creates no region; a region is
\* committed only by the step from waiting-for-second-click to idle, and
\* idle is left only by arm, so at most one region is committed between two
\* consecutive arm actions.
C18_HighlightStateMachine ==
    /\ [](highlight_first_ns # None => highlight_mode)
    /\ [][HlState' # HlState =>
            /\ <<HlState, HlState'>> \in HlTransitions
            /\ IF HlState = "idle" \/ HlState' = "second"
               THEN loadStack' = loadStack /\ highlight_regions' = highlight_regions
               ELSE TRUE
            /\ HlState' = "idle" => highlight_first_ns' = None]_vars
    /\ [][RegionCommitted => HlState = "second" /\ HlState' = "idle"]_vars
    /\ [][\A idx \in 1..MaxRows, text \in LabelTexts, ok \in BOOLEAN :
            ~highlight_mode /\ on_plot_clicked(idx, text, ok) =>
                UNCHANGED <<highlight_mode, highlight_first_ns, highlight_regions>>]_vars
\* Armed again and waiting for the second click after a committed region
C18_Witness ==
    /\ HlState = "second"
    /\ highlight_regions # << >>
    /\ x_ns # None /\ highlight_first_ns[1] = x_ns[1][Len(x_ns[1])]

\* C19: add_threshold_line(col, value) appends exactly one threshold with
\* that value to the end of the list of col, also when an equal threshold is
\* already there, and leaves the thresholds of every other series, the
\* rules, the event log, the highlight regions, the bookmarks and the series
\* state unchanged.
C19_ThresholdAppendsOne ==
    [][\A col \in {"A", "B"}, value \in ThresholdValues :
         add_threshold_line(col, value) =>
            LET old == IF col \in DOMAIN thresholds THEN thresholds[col] ELSE << >>
            IN /\ DOMAIN thresholds' = DOMAIN thresholds \cup {col}
               /\ Len(thresholds'[col]) = Len(old) + 1
               /\ IsPrefix(old, thresholds'[col])
               /\ thresholds'[col][Len(old) + 1].value = value
               /\ \A c \in DOMAIN thresholds \ {col} : thresholds'[c] = thresholds[c]
               /\ UNCHANGED <<find_rules, event_items, highlight_regions,
                              bookmarks, list_bm, seriesState>>]_vars
\* Two equal thresholds on A, one on B, and a bookmark
C19_Witness ==
    /\ DOMAIN thresholds = {"A", "B"}
    /\ Len(thresholds["A"]) = 2
    /\ thresholds["A"][1].value = thresholds["A"][2].value
    /\ Len(thresholds["B"]) = 1
    /\ bookmarks # << >>

\* s without the element at 0-based position idx, the others in their order
Without(s, idx) ==
    [j \in 1..(Len(s) - 1) |-> IF j <= idx THEN s[j] ELSE s[j + 1]]
Positions == -1..(MaxMarks - 1)

----------------------------------------------------------------------------
(* Claims about the reference overlay *)

\* The series the Dataset and the reference have in common
CommonSeries ==
    IF compare_data = None THEN {}
    ELSE Range(series_cols) \cap Range(compare_data[1].series_cols)

\* C21: in every reachable state the series shown as reference overlay are
\* among the series common to the Dataset and the reference loaded last, so
\* that opening a new reference leaves no overlay series that the new
\* reference does not have.
C21_OverlayWithinCommon == DOMAIN curves_ref \subseteq CommonSeries

\* C22: while comparison is off no comparison state is retained: the stored
\* comparison dataset is empty and there are no reference overlay curves.
C22_OffKeepsNothing ==
    ~compare_mode => compare_data = None /\ curves_ref = EmptyDict

\* The rows of a dataset: the instant and the samples of every series
RowsOf(xns, Y, cols) ==
    {<<xns[i], [c \in Range(cols) |-> Y[c][i]]>> : i \in DOMAIN xns}

\* C23: a file loaded as the reference gives what the same file gives as the
\* Dataset without a time range: it loads only if the primary load succeeds,
\* and then with the same series and the same retained rows.  (in.csv is
\* the only file of the session that can be read.)
C23_ReferenceLoadsAsPrimary ==
    compare_data # None =>
        /\ \E order \in FrameOrders(files["in.csv"]) :
              ReadAndPrepare(files["in.csv"], None, order, HAS_POLARS).ok
        /\ x_ns # None =>
              /\ compare_data[1].series_cols = series_cols
              /\ Len(compare_data[1].x_ns) = Len(x_ns[1])
              /\ RowsOf(compare_data[1].x_ns, compare_data[1].Y_raw, series_cols)
                    = RowsOf(x_ns[1], Y_raw, series_cols)

----------------------------------------------------------------------------
(* Claims about the view *)

\* The series that are active: the flag of line 646, True where none is set
ActiveSeries == {c \in Range(series_cols) : Get(active_for, c, TRUE)}
\* Where the sample i of the series c is drawn in the current scale, None
\* where nothing is drawn for it
SampleCoord(c, i) ==
    YCoord(DisplayData(Y_raw[c], Y_norm[c], current_mode)[i], current_mode = "log")
ActiveCoords ==
    {SampleCoord(c, i)[1] : <<c, i>> \in {p \in ActiveSeries \X DOMAIN x_sec[1] :
                                            SampleCoord(p[1], p[2]) # None}}
TimeCoords == {x_sec[1][i] * VIEW_UNIT : i \in DOMAIN x_sec[1]}

\* The view v shows the coordinates S along the axis from lo to hi with at
\* least 2% of their span to spare on either side
Spare(S, lo, hi) ==
    S # {} => /\ lo <= MinOf(S) - Pad(MaxOf(S) - MinOf(S))
              /\ hi >= MaxOf(S) + Pad(MaxOf(S) - MinOf(S))

\* C24: when no load is in progress, a fit of a Dataset with rows and an
\* active series leaves a view that holds the whole time span and every
\* drawn sample of every active series with 2% of the span to spare on each
\* side, its lower Y bound not below the floor in log mode; a fit without a
\* Dataset or without rows leaves the view as it is.
C24_FitHoldsActiveSamples ==
    Idle /\ Running =>
        LET v == FitView(viewRange, x_sec, curves, current_mode)
        IN IF FitRuns(x_sec)
           THEN ActiveSeries # {} =>
                    /\ Spare(TimeCoords, v.x0, v.x1)
                    /\ Spare(ActiveCoords, v.y0, v.y1)
                    /\ current_mode = "log" => v.y0 >= LOG_FLOOR
           ELSE v = viewRange

\* The same in the linear and the normalised scale only
C24_FitHoldsOutsideLog == current_mode # "log" => C24_FitHoldsActiveSamples

RangeError == Some(<<"Range Error", "Start must be earlier than End.">>)

\* C25: a jump to a range whose start is not before its end opens the Range
\* Error box and changes nothing else: the view range and every other
\* variable stay as they are.
C25_BadRangeRejected ==
    [][\A s \in JumpTimes, e \in JumpTimes :
          s >= e /\ go_to_range(s, e) =>
              /\ alert' = RangeError
              /\ UNCHANGED <<HAS_POLARS, files, exported, dataset, plotItems, seriesState,
                             overlays, selector, marks, viewport, fault, loadStack>>]_vars

\* A rejected jump on a view that a jump has moved before
C25_Witness ==
    /\ alert = RangeError
    /\ x_sec # None /\ x_sec[1] # << >>
    /\ viewRange.x0 > MinOf(Range(x_sec[1])) * VIEW_UNIT

----------------------------------------------------------------------------
(* Claims about the export *)

\* The rows of the Dataset inside the visible X range, as the export should
\* hold them: the time and the value of every active series
RowsInRange ==
    {<<x_sec[1][i], [c \in ActiveCols |-> Y_raw[c][i]]>> :
        i \in {j \in DOMAIN x_sec[1] : /\ viewRange.x0 <= x_sec[1][j] * VIEW_UNIT
                                        /\ x_sec[1][j] * VIEW_UNIT <= viewRange.x1}}
InTimeOrder(rows) == \A i \in DOMAIN rows, j \in DOMAIN rows : i < j => rows[i].t <= rows[j].t

\* C26: an export writes exactly the rows of the Dataset whose time lies in
\* the visible X range, in time order, with one column per active series,
\* each of them a series of the Dataset; with no row in range or no active
\* series nothing is written and nothing but the message box changes.
C26_ExportIsVisibleActive ==
    [][\A saved \in SaveResults :
          export_visible_csv(saved) =>
              IF x_sec = None \/ x_sec[1] = << >> \/ VisibleRows = {} \/ ActiveCols = {}
              THEN UNCHANGED <<HAS_POLARS, files, exported, dataset, plotItems,
                               seriesState, overlays, selector, marks, viewport,
                               fault, loadStack>>
              ELSE /\ ActiveCols \subseteq Range(series_cols)
                   /\ fault' = fault
                   /\ saved = "ok" =>
                         /\ exported' # None
                         /\ exported'[1].cols = ActiveCols
                         /\ Len(exported'[1].rows) = Cardinality(RowsInRange)
                         /\ {<<r.t, r.vals>> : r \in Range(exported'[1].rows)} = RowsInRange
                         /\ InTimeOrder(exported'[1].rows)]_vars

\* The same for the exports made while every active name is a series of the
\* Dataset
C26_ExportOfSeries ==
    [][\A saved \in SaveResults :
          export_visible_csv(saved) /\ ActiveCols \subseteq Range(series_cols) =>
              IF x_sec = None \/ x_sec[1] = << >> \/ VisibleRows = {} \/ ActiveCols = {}
              THEN UNCHANGED <<HAS_POLARS, files, exported, dataset, plotItems,
                               seriesState, overlays, selector, marks, viewport,
                               fault, loadStack>>
              ELSE /\ fault' = fault
                   /\ saved = "ok" =>
                         /\ exported' # None
                         /\ exported'[1].cols = ActiveCols
                         /\ Len(exported'[1].rows) = Cardinality(RowsInRange)
                         /\ {<<r.t, r.vals>> : r \in Range(exported'[1].rows)} = RowsInRange
                         /\ InTimeOrder(exported'[1].rows)]_vars

----------------------------------------------------------------------------
(* Claims about the time column *)

\* The place of a name in the priority list
Priority(c) == IndexOf(TIME_COL_CANDIDATES, c)
\* The column the priority list picks in a header: the candidate of the
\* header that no other candidate of the header precedes in the list, the
\* first column when the header holds no candidate
PriorityColumn(header) ==
    LET cands == Range(header) \cap Range(TIME_COL_CANDIDATES)
    IN IF cands = {} THEN header[1]
       ELSE CHOOSE c \in cands : \A d \in cands : Priority(c) <= Priority(d)
\* How many rows of the table hold the instant t in the column c
RowsAt(tbl, c, t) == Cardinality({i \in DOMAIN tbl.rows : ParseTime(tbl.rows[i][c]) = Some(t)})
Count(seq, t) == Cardinality({i \in DOMAIN seq : seq[i] = t})

\* C27: the time axis of a load that succeeds holds the instants of the
\* column the priority list picks in the file's header (every row of these
\* files has a finite value, so no row is masked), and a load that fails
\* after the detection leaves that column's name as time column.
C27_TimeColumnByPriority ==
    [][\A path \in DOMAIN files :
          LoadRead(path, None, 1) /\ files[path].readable =>
              LET c == PriorityColumn(files[path].header)
              IN /\ loadStack' # loadStack =>
                       \A t \in {1, 2} : Count(x_ns'[1], t) = RowsAt(files[path], c, t)
                 /\ alert' # None => time_col' = c]_vars

\* A load has succeeded on a header whose first candidate in header order
\* is not the one the priority list picks, the two columns holding
\* different instants
C27_Witness ==
    /\ Idle /\ x_ns # None
    /\ files["in.csv"].header = <<"Time", "Date UTC", "A">>
    /\ \E t \in {1, 2} : RowsAt(files["in.csv"], "Time", t) # RowsAt(files["in.csv"], "Date UTC", t)

----------------------------------------------------------------------------
(* Claims about the order of the Hits *)

\* The place of a series in the rule set, in insertion order
RulePlace(col) == CHOOSE i \in DOMAIN find_rules : find_rules[i].col = col
\* The series a Hit is about: every word of its text names it
HitSeries(en) == en.text[1].col

\* C28: the entries one scan appends to the event log are grouped by
\* series in the order of the rule set, and ascend in time within a series:
\* of two appended entries the earlier one belongs to a series of an
\* earlier place in the rule set, or to the same series and a time not
\* later.
C28_HitsBySeriesThenTime ==
    [][run_event_finder =>
           LET n == Len(event_items)
           IN \A i, j \in (n + 1)..Len(event_items') :
                  i < j =>
                      LET a == event_items'[i]
                          b == event_items'[j]
                      IN IF HitSeries(a) = HitSeries(b) THEN a.x_ns <= b.x_ns
                         ELSE RulePlace(HitSeries(a)) < RulePlace(HitSeries(b))]_vars

\* The rule of B was inserted before the rule of A, and the log holds a Hit
\* of B before a Hit of A of an earlier time, and two Hits of one series
C28_Witness ==
    /\ Len(find_rules) = 2 /\ find_rules[1].col = "B"
    /\ \E i, j \in DOMAIN event_items :
           /\ i < j
           /\ HitSeries(event_items[i]) = "B" /\ HitSeries(event_items[j]) = "A"
           /\ event_items[i].x_ns > event_items[j].x_ns
    /\ \E i, j \in DOMAIN event_items :
           /\ i < j
           /\ HitSeries(event_items[i]) = HitSeries(event_items[j])
           /\ event_items[i].x_ns < event_items[j].x_ns

----------------------------------------------------------------------------
(* Claims about the anchored zoom *)

RECURSIVE GCD(_, _)
GCD(a, b) == IF b = 0 THEN a ELSE GCD(b, a % b)
\* p1 / q1 = p2 / q2, for naturals p1, p2 and positive q1, q2
SameRatio(p1, q1, p2, q2) ==
    /\ p1 \div GCD(p1, q1) = p2 \div GCD(p2, q2)
    /\ q1 \div GCD(p1, q1) = q2 \div GCD(p2, q2)

\* What the claim says of one axis: the range lo..hi, zoomed by s about a,
\* has become lo2..hi2
BoundMapped(dist, dist2, s) ==
    /\ dist2 >= 0
    /\ IF dist = 0 THEN dist2 = 0 ELSE SameRatio(dist2, dist, s.n, s.d)
AxisZoomed(lo, hi, a, s, lo2, hi2) ==
    /\ BoundMapped(a - lo, a - lo2, s)
    /\ BoundMapped(hi - a, hi2 - a, s)
    /\ lo2 < hi2
    /\ SameRatio(hi2 - lo2, hi - lo, s.n, s.d)
    /\ SameRatio(a - lo2, hi2 - lo2, a - lo, hi - lo)

ZoomFactors == {ZOOM_IN, ZOOM_OUT, ZOOM_NONE}
\* A wheel event of zero delta leaves the view as it is
ZeroDeltaKeepsView ==
    \A ax \in AnchorsX, ay \in AnchorsY, mods \in WheelMods :
        WheelView(viewRange, 0, ax, ay, mods) = viewRange

\* C29 as stated: whatever the view, a zoom by (sx, sy) about an anchor
\* inside it maps the bounds of each axis to anchor -/+ distance * factor,
\* keeps the anchor's relative position and the order of the bounds,
\* multiplies the span by the factor, leaves the X range as it is when
\* sx = 1 and the Y range when sy = 1, and a wheel event of zero delta
\* changes nothing.
C29_ZoomScalesEveryRange ==
    Idle /\ Running =>
        /\ ZeroDeltaKeepsView
        /\ \A sx \in ZoomFactors, sy \in ZoomFactors, ax \in AnchorsX, ay \in AnchorsY :
               /\ ExactAxis(viewRange.x0, viewRange.x1, ax, sx, MIN_X_RANGE)
               /\ ExactAxis(viewRange.y0, viewRange.y1, ay, sy, MIN_Y_RANGE)
               => LET v == zoom_around(viewRange, ax, ay, sx, sy)
                  IN /\ AxisZoomed(viewRange.x0, viewRange.x1, ax, sx, v.x0, v.x1)
                     /\ AxisZoomed(viewRange.y0, viewRange.y1, ay, sy, v.y0, v.y1)
                     /\ sx = ZOOM_NONE => v.x0 = viewRange.x0 /\ v.x1 = viewRange.x1
                     /\ sy = ZOOM_NONE => v.y0 = viewRange.y0 /\ v.y1 = viewRange.y1

\* One axis of the amended statement: the claim's mapping when the scaled
\* span is at least the least span of the axis, the least span otherwise
AxisZoomedOrLeast(lo, hi, a, s, minRng, lo2, hi2) ==
    IF Scaled(hi - lo, s) >= minRng
    THEN AxisZoomed(lo, hi, a, s, lo2, hi2)
    ELSE hi2 - lo2 = minRng

\* C29, amended: the same, for every axis whose scaled span is at least
\* the least span set for it (1 s on X, 1e-6 on Y); an axis whose scaled
\* span is less is left with exactly the least span.
C29_ZoomScalesAboveLeastSpan ==
    Idle /\ Running =>
        /\ ZeroDeltaKeepsView
        /\ \A sx \in ZoomFactors, sy \in ZoomFactors, ax \in AnchorsX, ay \in AnchorsY :
               /\ ExactAxis(viewRange.x0, viewRange.x1, ax, sx, MIN_X_RANGE)
               /\ ExactAxis(viewRange.y0, viewRange.y1, ay, sy, MIN_Y_RANGE)
               => LET v == zoom_around(viewRange, ax, ay, sx, sy)
                  IN /\ AxisZoomedOrLeast(viewRange.x0, viewRange.x1, ax, sx, MIN_X_RANGE,
                                          v.x0, v.x1)
                     /\ AxisZoomedOrLeast(viewRange.y0, viewRange.y1, ay, sy, MIN_Y_RANGE,
                                          v.y0, v.y1)
                     /\ sx = ZOOM_NONE => v.x0 = viewRange.x0 /\ v.x1 = viewRange.x1
                     /\ sy = ZOOM_NONE => v.y0 = viewRange.y0 /\ v.y1 = viewRange.y1

\* The wheel has zoomed the X range of a loaded file out about an anchor
\* ten parts of 169 into it, the Y range being as the load left it, and a
\* zoom in both directions can follow
C29_Witness ==
    /\ Idle /\ Running /\ x_sec # None
    /\ \E ax \in AnchorsX :
           /\ viewRange.x0 < ax /\ ax < viewRange.x1
           /\ SameRatio(ax - viewRange.x0, viewRange.x1 - viewRange.x0, 10, 169)
           /\ viewRange.x1 - viewRange.x0 = Scaled(169000000, ZOOM_OUT)
    /\ \E ay \in AnchorsY :
           ExactAxis(viewRange.y0, viewRange.y1, ay, ZOOM_OUT, MIN_Y_RANGE)

----------------------------------------------------------------------------
(* Claims about the hover and click readout *)

\* The cursor line stands on the row of the least distance to x, the
\* first such row
OnNearestRow(xs, x, line) ==
    \E i \in DOMAIN xs :
        /\ line = xs[i]
        /\ \A j \in DOMAIN xs :
               /\ Abs(xs[i] * VIEW_UNIT - x) <= Abs(xs[j] * VIEW_UNIT - x)
               /\ j < i => Abs(xs[i] * VIEW_UNIT - x) < Abs(xs[j] * VIEW_UNIT - x)

\* C30: whenever a Dataset is loaded, one of no rows included, a hover or
\* a click at x ends without a fault, on the first row of the least
\* distance to x.
C30_HoverAndClickResolve ==
    [][\A x \in CursorXs :
          on_mouse_moved(x) \/ on_plot_clicked_at(x, << >>, FALSE) =>
              /\ fault' = ""
              /\ OnNearestRow(x_sec[1], x, vline')]_vars

\* With rows on the time axis, a hover or a click moves the cursor line to
\* the first row of the least distance to x
C30_NearestWhenRows ==
    [][\A x \in CursorXs :
          /\ x_sec # None /\ x_sec[1] # << >>
          /\ on_mouse_moved(x) \/ on_plot_clicked_at(x, << >>, FALSE)
          => OnNearestRow(x_sec[1], x, vline')]_vars

----------------------------------------------------------------------------
(* Claims about the time-column selector *)

\* The user has picked a column in the selector: it is shown, and the time
\* column is an item of it other than the one a load leaves selected
Picked == cmb_visible /\ time_col \in Range(cmb_items) /\ time_col # cmb_items[1]

\* C31: a Load that follows the user's pick in the selector and succeeds
\* builds the time axis from the instants of the picked column.
C31_LoadUsesPickedColumn ==
    [][\A path \in DOMAIN files :
          /\ Picked /\ time_col \in Range(files[path].header)
          /\ LoadRead(path, None, 1) /\ loadStack' # loadStack
          => \A t \in {1, 2} : Count(x_ns'[1], t) = RowsAt(files[path], time_col, t)]_vars

----------------------------------------------------------------------------
(* Claims about the highlight gesture across reloads *)

\* C32: a click that commits a highlight region commits one whose two
\* endpoints are instants of rows of the Dataset that is current at that
\* click; no anchor of a Dataset that a reload has replaced takes part.
C32_RegionWithinCurrentDataset ==
    [][\A idx \in 1..MaxRows, text \in LabelTexts, ok \in BOOLEAN :
          /\ Len(highlight_regions') > Len(highlight_regions)
          /\ on_plot_clicked(idx, text, ok)
          => LET r == highlight_regions'[Len(highlight_regions')]
             IN r.s_ns \in Range(x_ns[1]) /\ r.e_ns \in Range(x_ns[1])]_vars

----------------------------------------------------------------------------
(* Claims about the lists the window shows *)

\* C33: whenever no load is in progress, the list of events the window
\* shows has one item for each entry of the event log, in the same order.
C33_ListMirrorsLog ==
    Idle =>
        /\ Len(list_events) = Len(event_items)
        /\ \A i \in DOMAIN event_items :
               list_events[i] = EventItem(event_items[i].x_ns, event_items[i].text)

\* C34: in every reachable state every key of the rule map and of the
\* threshold map is the name of a series of the current Dataset.
C34_KeysAreCurrentSeries ==
    \A key \in OrderedKeys(find_rules) \cup DOMAIN thresholds : key \in Range(series_cols)

\* The list of bookmarks the window shows has the labels of the stored
\* bookmarks, in their order
BookmarksMirrored ==
    /\ Len(list_bm) = Len(bookmarks)
    /\ \A i \in DOMAIN bookmarks : list_bm[i] = bookmarks[i][2]

\* C35: no step of a load, whether the load succeeds or fails, changes the
\* stored bookmarks or their list, and after every step the list shows the
\* labels of the stored bookmarks in their order.
C35_BookmarksSurviveReload ==
    [][/\ LoadFull \/ LoadPlot \/ LoadDone \/ CloseAlert =>
              UNCHANGED <<bookmarks, list_bm>>
       /\ BookmarksMirrored']_vars

\* Two bookmarks of different labels are stored, one of them of an instant
\* of a Dataset that a later load has replaced, and the message of a load
\* that failed after that is open
C35_Witness ==
    /\ Len(bookmarks) = 2 /\ bookmarks[1][2] # bookmarks[2][2]
    /\ x_ns # None
    /\ \E i \in DOMAIN bookmarks : bookmarks[i][1] \notin Range(x_ns[1])
    /\ alert # None /\ alert[1][1] = "Load Error"
----------------------------------------------------------------------------
(* Claims about what a scan depends on *)

\* C36: whatever the active flags, the downsampling flags and the scale
\* are, the entries a scan appends are the Hits of the rules on the Dataset
\* as the file of the session gives it.
C36_HitsIgnoreSeriesState ==
    [][run_event_finder =>
           \E order \in FrameOrders(files["data.csv"]) :
               LET r == ReadAndPrepare(files["data.csv"], None, order, HAS_POLARS)
               IN SubSeq(event_items', Len(event_items) + 1, Len(event_items'))
                      = ScanHits(find_rules, r.x_ns, r.Y_raw)]_vars

\* The log holds a Hit of a series that is not active, in a scale other
\* than linear, with the downsampling of a series switched from its default
C36_Witness ==
    /\ Idle /\ current_mode # "linear"
    /\ \E i \in DOMAIN event_items :
           /\ HitSeries(event_items[i]) \in DOMAIN active_for
           /\ ~active_for[HitSeries(event_items[i])]
    /\ \E c \in DOMAIN ds_for : ds_for[c] # ds_default

----------------------------------------------------------------------------
(* Claims about the jump to a range *)

\* C37: with a Dataset that has rows on show and the Go button enabled,
\* every start and end with start < end give a range whose bounds lie
\* within the first and the last instant of the time axis, the lower one
\* strictly below the upper one.
C37_JumpRangeProper ==
    Running /\ jump_enabled /\ x_sec # None /\ x_sec[1] # << >> =>
        \A s \in JumpTimes, e \in JumpTimes :
            s < e =>
                LET r == JumpRange(s, e, x_sec[1])
                IN /\ MinOf(Range(x_sec[1])) <= r[1]
                   /\ r[1] < r[2]
                   /\ r[2] <= MaxOf(Range(x_sec[1]))

\* The same without the strict order of the bounds
C37_JumpRangeClipped ==
    Running /\ jump_enabled /\ x_sec # None /\ x_sec[1] # << >> =>
        \A s \in JumpTimes, e \in JumpTimes :
            s < e =>
                LET r == JumpRange(s, e, x_sec[1])
                IN /\ MinOf(Range(x_sec[1])) <= r[1]
                   /\ r[1] <= r[2]
                   /\ r[2] <= MaxOf(Range(x_sec[1]))

====
